---- MODULE Spec2Model ----
(***************************************************************************)
(* A model of the greeter library of LightDM (liblightdm-gobject/greeter.c) *)
(* : the wire codec, the reader of the stream from the daemon, the hints,   *)
(* the sequence-numbered authentication session and the synchronisation of *)
(* the user list with the account database.                                *)
(*                                                                         *)
(* Representation of the C data:                                           *)
(*   guint8          a number in 0..255                                    *)
(*   guint32         a record [hi, lo] of two 16-bit halves, so that the   *)
(*                   32-bit width and its wrap-around are kept exactly     *)
(*   gchar * string  the sequence of its bytes (no terminator)             *)
(*   gchar * or NULL NULL is <<>>, a string s is <<s>>                     *)
(*   LdmUser *       an object id; the fields live in the heap "objects"   *)
(***************************************************************************)
EXTENDS Integers, Sequences, FiniteSets, TLC

VARIABLES
    authentication_user,            \* priv->authentication_user
    in_authentication,              \* priv->in_authentication
    is_authenticated,               \* priv->is_authenticated
    authenticate_sequence_number,   \* priv->authenticate_sequence_number
    cancelling_authentication,      \* priv->cancelling_authentication
    read_buffer,                    \* priv->read_buffer (the bytes received)
    n_read,                         \* priv->n_read
    have_users,                     \* priv->have_users
    users,                          \* priv->users, a list of LdmUser pointers
    objects,                        \* the live LdmUser objects, by id
    passwd_monitor,                 \* priv->passwd_monitor is set and connected
    pc,                             \* where the greeter's thread is
    emitted,                        \* signals raised by the last step, in order
    to_server,                      \* messages handed to write_message by the last step
    last,                           \* the last step and its inputs
    issued,                         \* sequence numbers yielded by the login calls, in order
    wraps,                          \* times the sequence counter wrapped to 0
    cancel_state,                   \* "pending": cancel was called while in progress and
                                    \* neither a login nor a matching END came since;
                                    \* "ended": the matching END came; else "none"
    pending_login,                  \* a login call was made and no END carrying its
                                    \* sequence number was processed since
    old_users,                      \* the user list before the last load, as records
    to_server_channel,              \* priv->to_server_channel: "none", "open", or
                                    \* "broken" when writes to it fail
    from_server_watch,              \* from_server_cb is installed as a watch of
                                    \* priv->from_server_channel
    stream,                         \* bytes the daemon wrote that were not read yet
    sent,                           \* the frames the daemon wrote, in order
    dispatched,                     \* the packets from_server_cb has dispatched, in order
    read_capacity,                  \* the allocated size of priv->read_buffer, a gsize
    gsize_bits,                     \* the width of gsize in the build: 32 or 64
    hints,                          \* priv->hints: value by name
    login_timeout,                  \* priv->login_timeout: a source id or 0
    timeouts,                       \* the sources g_timeout_add created; the id of a
                                    \* source is its position
    cancelled_sources,              \* how many sources there were when
                                    \* ldm_greeter_cancel_timed_login was last called
    system_bus                      \* priv->system_bus is set

authVars == << authentication_user, in_authentication, is_authenticated,
               authenticate_sequence_number, cancelling_authentication,
               read_buffer, n_read, issued, wraps, cancel_state, pending_login >>
userVars == << have_users, users, objects, passwd_monitor, old_users >>
ioVars == << to_server_channel, from_server_watch, stream, sent, dispatched,
             read_capacity, gsize_bits >>
hintVars == << hints, login_timeout, timeouts, cancelled_sources >>
connVars == << ioVars, hintVars, system_bus >>
vars == << authentication_user, in_authentication, is_authenticated,
           authenticate_sequence_number, cancelling_authentication,
           read_buffer, n_read, have_users, users, objects, passwd_monitor, pc, emitted,
           to_server, last, issued, wraps, cancel_state, pending_login, old_users,
           to_server_channel, from_server_watch, stream, sent, dispatched,
           read_capacity, gsize_bits, hints, login_timeout, timeouts,
           cancelled_sources, system_bus >>

----------------------------------------------------------------------------
(* Bounds of the model *)

\* login and login_as_guest calls made in one behaviour
MaxLogins == 3

\* account entries returned by one enumeration of the account database
MaxEntries == 3

\* timer sources created in one behaviour
MaxSources == 2

\* frames the daemon writes in one behaviour of the reader
MaxFrames == 2

----------------------------------------------------------------------------
(* Constants of the program *)

HEADER_SIZE == 8
MAX_MESSAGE_LENGTH == 1024

GREETER_MESSAGE_CONNECT == 0
GREETER_MESSAGE_LOGIN == 1
GREETER_MESSAGE_LOGIN_AS_GUEST == 2
GREETER_MESSAGE_CONTINUE_AUTHENTICATION == 3
GREETER_MESSAGE_START_SESSION == 4
GREETER_MESSAGE_CANCEL_AUTHENTICATION == 5

SERVER_MESSAGE_CONNECTED == 0
SERVER_MESSAGE_QUIT == 1
SERVER_MESSAGE_PROMPT_AUTHENTICATION == 2
SERVER_MESSAGE_END_AUTHENTICATION == 3
SERVER_MESSAGE_SESSION_FAILED == 4

PAM_PROMPT_ECHO_OFF == 1
PAM_PROMPT_ECHO_ON == 2
PAM_ERROR_MSG == 3
PAM_TEXT_INFO == 4

NULL == << >>

----------------------------------------------------------------------------
(* guint32 *)

\* the guint32 with value n, for 0 <= n < 2^31
U32(n) == [hi |-> n \div 65536, lo |-> n % 65536]

\* value++ on a guint32: wraps from 0xFFFFFFFF to 0
U32Inc(v) ==
    IF v.lo = 65535 THEN [hi |-> (v.hi + 1) % 65536, lo |-> 0]
    ELSE [hi |-> v.hi, lo |-> v.lo + 1]

\* value-- on a guint32 (used to build stale sequence numbers)
U32Dec(v) ==
    IF v.lo = 0 THEN [hi |-> (v.hi + 65535) % 65536, lo |-> 65535]
    ELSE [hi |-> v.hi, lo |-> v.lo - 1]

U32Lt(a, b) == a.hi < b.hi \/ (a.hi = b.hi /\ a.lo < b.lo)

\* the value as a number; only for values below 2^31
U32Nat(v) == v.hi * 65536 + v.lo

U32Max == [hi |-> 65535, lo |-> 65535]

----------------------------------------------------------------------------
(* Wire codec *)

int_length == 4

string_length(value) == int_length + Len(value)

\* The four bytes write_int stores: value >> 24, (value >> 16) & 0xFF,
\* (value >> 8) & 0xFF, value & 0xFF
IntBytes(value) ==
    << value.hi \div 256, value.hi % 256, value.lo \div 256, value.lo % 256 >>

\* write_int (buffer, buffer_length, value, &offset).  The buffer is the
\* sequence of the bytes written so far and *offset is its length.
write_int(buffer, buffer_length, value) ==
    IF Len(buffer) + 4 >= buffer_length THEN buffer
    ELSE buffer \o IntBytes(value)

\* write_string that copies the text whatever room is left
write_string_unchecked(buffer, buffer_length, value) ==
    LET length == Len(value)
        b1 == write_int(buffer, buffer_length, U32(length))
    IN  b1 \o value

write_string(buffer, buffer_length, value) ==
    LET length == Len(value)
        b1 == write_int(buffer, buffer_length, U32(length))
    IN  IF Len(b1) + length >= buffer_length THEN b1
        ELSE b1 \o value

write_header(buffer, buffer_length, id, length) ==
    write_int(write_int(buffer, buffer_length, U32(id)), buffer_length, U32(length))

\* n - *offset < k on gsize operands: the difference is unsigned, so it is
\* small only when offset does not exceed n
GsizeLess(n, offset, k) == offset <= n /\ n - offset < k

\* read_int (greeter, &offset) on a buffer holding n bytes: the value and the
\* new offset.  offset counts the bytes before the field (0-based).
read_int(buffer, n, offset) ==
    IF GsizeLess(n, offset, int_length)
    THEN [value |-> U32(0), offset |-> offset]
    ELSE [value |-> [hi |-> buffer[offset + 1] * 256 + buffer[offset + 2],
                     lo |-> buffer[offset + 3] * 256 + buffer[offset + 4]],
          offset |-> offset + int_length]

\* n - *offset < length, for a guint32 length
ShortOf(n, offset, length) ==
    offset <= n /\ (length.hi >= 32768 \/ n - offset < U32Nat(length))

\* read_string that yields the bytes that are there when the text is cut short
read_string_partial(buffer, n, offset) ==
    LET l == read_int(buffer, n, offset)
    IN  IF ShortOf(n, l.offset, l.value)
        THEN [value |-> SubSeq(buffer, l.offset + 1, n), offset |-> n]
        ELSE [value |-> SubSeq(buffer, l.offset + 1, l.offset + U32Nat(l.value)),
              offset |-> l.offset + U32Nat(l.value)]

read_string(buffer, n, offset) ==
    LET l == read_int(buffer, n, offset)
    IN  IF ShortOf(n, l.offset, l.value)
        THEN [value |-> << >>, offset |-> l.offset]
        ELSE [value |-> SubSeq(buffer, l.offset + 1, l.offset + U32Nat(l.value)),
              offset |-> l.offset + U32Nat(l.value)]

----------------------------------------------------------------------------
(* Inputs: strings the application passes, frames the daemon sends *)

STR_al == << 97, 108 >>
STR_pw == << 112, 119 >>
STR_ok == << 111, 107 >>
STR_no == << 110, 111 >>

\* the text of n letters x
Text(n) == [i \in 1..n |-> 120]

\* a response that does not fit the message buffer after the 16 bytes of
\* header, response count and string length
LongText == [i \in 1..(MAX_MESSAGE_LENGTH - 16) |-> 120]

Usernames == { NULL, << STR_al >> }
Responses == { STR_pw, LongText }

\* message lists of a PROMPT_AUTHENTICATION payload; style 5 is
\* PAM_RADIO_TYPE, which the greeter has no notification for
PromptPayloads ==
    { << >>,
      << [style |-> PAM_PROMPT_ECHO_OFF, text |-> STR_pw] >>,
      << [style |-> PAM_PROMPT_ECHO_ON, text |-> STR_al],
         [style |-> PAM_PROMPT_ECHO_OFF, text |-> STR_pw] >>,
      << [style |-> PAM_TEXT_INFO, text |-> STR_ok],
         [style |-> PAM_ERROR_MSG, text |-> STR_no] >>,
      << [style |-> 5, text |-> STR_ok],
         [style |-> PAM_PROMPT_ECHO_OFF, text |-> STR_pw] >> }

\* PAM return codes of an END_AUTHENTICATION: PAM_SUCCESS, PAM_AUTH_ERR
ReturnCodes == { U32(0), U32(7) }

RECURSIVE EncodeMessages(_)
EncodeMessages(msgs) ==
    IF msgs = << >> THEN << >>
    ELSE IntBytes(U32(msgs[1].style)) \o IntBytes(U32(Len(msgs[1].text)))
         \o msgs[1].text \o EncodeMessages(Tail(msgs))

\* a frame as the daemon writes it: id, payload length, payload
FrameBytes(id, payload) ==
    IntBytes(U32(id)) \o IntBytes(U32(Len(payload))) \o payload

NoMsgs == << >>

\* A frame with the fields it was built from.  wf: the payload has the
\* layout of its message id; hasSeq: the payload carries a sequence number.
Frame(id, seq, rc, msgs, wf, hasSeq, payload) ==
    [id |-> id, seq |-> seq, rc |-> rc, msgs |-> msgs, wf |-> wf,
     hasSeq |-> hasSeq, bytes |-> FrameBytes(id, payload)]

NoFrame == [id |-> 99, seq |-> U32(0), rc |-> U32(0), msgs |-> NoMsgs,
            wf |-> FALSE, hasSeq |-> FALSE, bytes |-> << >>]

PromptFrame(seq, msgs) ==
    Frame(SERVER_MESSAGE_PROMPT_AUTHENTICATION, seq, U32(0), msgs, TRUE, TRUE,
          IntBytes(seq) \o IntBytes(U32(Len(msgs))) \o EncodeMessages(msgs))

EndFrame(seq, rc) ==
    Frame(SERVER_MESSAGE_END_AUTHENTICATION, seq, rc, NoMsgs, TRUE, TRUE,
          IntBytes(seq) \o IntBytes(rc))

\* frames whose payload is shorter than its layout says
TruncatedFrames(seq) ==
    { Frame(SERVER_MESSAGE_END_AUTHENTICATION, seq, U32(0), NoMsgs, FALSE, TRUE,
            IntBytes(seq)),
      Frame(SERVER_MESSAGE_END_AUTHENTICATION, U32(0), U32(0), NoMsgs, FALSE, FALSE,
            << >>),
      Frame(SERVER_MESSAGE_PROMPT_AUTHENTICATION, U32(0), U32(0), NoMsgs, FALSE, FALSE,
            << >>),
      Frame(SERVER_MESSAGE_PROMPT_AUTHENTICATION, seq, U32(0), NoMsgs, FALSE, TRUE,
            IntBytes(seq) \o IntBytes(U32(2)) \o IntBytes(U32(PAM_PROMPT_ECHO_OFF))
            \o IntBytes(U32(9)) \o STR_pw) }

OtherFrames ==
    { Frame(SERVER_MESSAGE_QUIT, U32(0), U32(0), NoMsgs, TRUE, FALSE, << >>),
      Frame(SERVER_MESSAGE_SESSION_FAILED, U32(0), U32(0), NoMsgs, TRUE, FALSE, << >>),
      Frame(7, U32(0), U32(0), NoMsgs, FALSE, FALSE, << >>) }

\* sequence numbers the daemon may put in a frame: the current one, the one
\* of the attempt before it, and one never issued
FrameSeqs(current) == { current, U32Dec(current), U32Inc(current) }

ServerFrames(current) ==
    { PromptFrame(s, m) : s \in FrameSeqs(current), m \in PromptPayloads }
    \cup { EndFrame(s, r) : s \in FrameSeqs(current), r \in ReturnCodes }
    \cup UNION { TruncatedFrames(s) : s \in FrameSeqs(current) }
    \cup OtherFrames

----------------------------------------------------------------------------
(* Signals and the record of the last step *)

\* g_signal_emit: the signal, its string and type arguments, its user argument
Signal(sig, text, type, user) == [sig |-> sig, text |-> text, type |-> type, user |-> user]

NoUser == 0

Step(op, arg, frame) == [op |-> op, arg |-> arg, frame |-> frame]

\* write_message (greeter, message, message_length): the offset bytes of the
\* message go to the channel to the daemon.  When the write does not return
\* G_IO_STATUS_NORMAL the warning reads error->message with error == NULL (no
\* GError location was passed to g_io_channel_write_chars): the read of the
\* null pointer ends the process, or the build goes on past it.
write_message_to(channel, message) ==
    IF channel = "open"
    THEN /\ to_server' = << message >>
         /\ pc' = pc
    ELSE /\ to_server' = << >>
         /\ pc' \in { pc, "crashed" }

write_message(message) == write_message_to(to_server_channel, message)

----------------------------------------------------------------------------
(* Authentication session *)

\* prompt_signal with the two prompt types exchanged
prompt_signal_swapped(msg_style, msg) ==
    IF msg_style = U32(PAM_PROMPT_ECHO_OFF) THEN << Signal("show-prompt", msg, "question", NoUser) >>
    ELSE IF msg_style = U32(PAM_PROMPT_ECHO_ON) THEN << Signal("show-prompt", msg, "secret", NoUser) >>
    ELSE IF msg_style = U32(PAM_ERROR_MSG) THEN << Signal("show-message", msg, "error", NoUser) >>
    ELSE IF msg_style = U32(PAM_TEXT_INFO) THEN << Signal("show-message", msg, "info", NoUser) >>
    ELSE << >>

\* the signal one (style, text) message of a prompt raises, if any
prompt_signal(msg_style, msg) ==
    IF msg_style = U32(PAM_PROMPT_ECHO_OFF) THEN << Signal("show-prompt", msg, "secret", NoUser) >>
    ELSE IF msg_style = U32(PAM_PROMPT_ECHO_ON) THEN << Signal("show-prompt", msg, "question", NoUser) >>
    ELSE IF msg_style = U32(PAM_ERROR_MSG) THEN << Signal("show-message", msg, "error", NoUser) >>
    ELSE IF msg_style = U32(PAM_TEXT_INFO) THEN << Signal("show-message", msg, "info", NoUser) >>
    ELSE << >>

\* the loop of handle_prompt_authentication from message i on: the signals raised
RECURSIVE prompt_messages(_, _, _, _, _)
prompt_messages(buffer, n, offset, i, n_messages) ==
    IF i >= n_messages THEN << >>
    ELSE LET msg_style == read_int(buffer, n, offset)
             msg == read_string(buffer, n, msg_style.offset)
         IN  prompt_signal(msg_style.value, msg.value)
             \o prompt_messages(buffer, n, msg.offset, i + 1, n_messages)

\* handle_prompt_authentication without the check of the sequence number
handle_prompt_authentication_anyseq(buffer, n, offset) ==
    LET sequence_number == read_int(buffer, n, offset)
        n_messages == read_int(buffer, n, sequence_number.offset)
    IN  IF cancelling_authentication THEN << >>
        ELSE prompt_messages(buffer, n, n_messages.offset, 0, U32Nat(n_messages.value))

\* handle_prompt_authentication without the check of cancelling_authentication
handle_prompt_authentication_nocancel(buffer, n, offset) ==
    LET sequence_number == read_int(buffer, n, offset)
        n_messages == read_int(buffer, n, sequence_number.offset)
    IN  IF sequence_number.value # authenticate_sequence_number THEN << >>
        ELSE prompt_messages(buffer, n, n_messages.offset, 0, U32Nat(n_messages.value))

\* handle_prompt_authentication (greeter, &offset): the signals raised
handle_prompt_authentication(buffer, n, offset) ==
    LET sequence_number == read_int(buffer, n, offset)
        n_messages == read_int(buffer, n, sequence_number.offset)
    IN  IF sequence_number.value # authenticate_sequence_number THEN << >>
        ELSE IF cancelling_authentication THEN << >>
        ELSE prompt_messages(buffer, n, n_messages.offset, 0, U32Nat(n_messages.value))

\* handle_end_authentication that keeps the recorded user on a failure
handle_end_authentication_keepuser(buffer, n, offset) ==
    LET sequence_number == read_int(buffer, n, offset)
        return_code == read_int(buffer, n, sequence_number.offset)
    IN  IF sequence_number.value # authenticate_sequence_number
        THEN /\ UNCHANGED << authentication_user, is_authenticated,
                             cancelling_authentication, cancel_state, pending_login >>
             /\ emitted' = << >>
             /\ n_read' = 0
             /\ pc' = "main"
        ELSE /\ cancelling_authentication' = FALSE
             /\ is_authenticated' = (return_code.value = U32(0))
             /\ authentication_user' = authentication_user
             /\ emitted' = << Signal("authentication-complete", << >>, "", NoUser) >>
             /\ n_read' = n
             /\ pc' = "authentication_complete"
             /\ cancel_state' = IF cancel_state = "pending" THEN "ended" ELSE cancel_state
             /\ pending_login' = FALSE

\* handle_end_authentication (greeter, &offset) up to and including the
\* emission of authentication-complete; the handlers of the signal run before
\* in_authentication is cleared (handle_end_authentication_return)
handle_end_authentication(buffer, n, offset) ==
    LET sequence_number == read_int(buffer, n, offset)
        return_code == read_int(buffer, n, sequence_number.offset)
    IN  IF sequence_number.value # authenticate_sequence_number
        THEN /\ UNCHANGED << authentication_user, is_authenticated,
                             cancelling_authentication, cancel_state, pending_login >>
             /\ emitted' = << >>
             /\ n_read' = 0
             /\ pc' = "main"
        ELSE /\ cancelling_authentication' = FALSE
             /\ is_authenticated' = (return_code.value = U32(0))
             /\ authentication_user' =
                    IF return_code.value # U32(0) THEN NULL ELSE authentication_user
             /\ emitted' = << Signal("authentication-complete", << >>, "", NoUser) >>
             /\ n_read' = n
             /\ pc' = "authentication_complete"
             /\ cancel_state' = IF cancel_state = "pending" THEN "ended" ELSE cancel_state
             /\ pending_login' = FALSE

\* the handlers of authentication-complete have returned
handle_end_authentication_return ==
    /\ pc = "authentication_complete"
    /\ in_authentication' = FALSE
    /\ n_read' = 0
    /\ pc' = "main"
    /\ emitted' = << >>
    /\ to_server' = << >>
    /\ last' = Step("end_return", NULL, NoFrame)
    /\ UNCHANGED << authentication_user, is_authenticated, authenticate_sequence_number,
                    cancelling_authentication, read_buffer, issued, wraps,
                    cancel_state, pending_login >>
    /\ UNCHANGED << userVars, connVars >>

\* g_hash_table_lookup (table, name): the value, or NULL
g_hash_table_lookup(table, name) ==
    IF name \in DOMAIN table THEN << table[name] >> ELSE NULL

\* g_hash_table_insert (table, name, value): a value the name had is replaced
g_hash_table_insert(table, name, value) ==
    [k \in DOMAIN table \cup { name } |-> IF k = name THEN value ELSE table[k]]

\* ldm_greeter_get_hint (greeter, name)
ldm_greeter_get_hint(name) == g_hash_table_lookup(hints, name)

\* the number the decimal digits at the head of the string stand for
RECURSIVE digits_value(_, _)
digits_value(value, acc) ==
    IF value = << >> \/ value[1] < 48 \/ value[1] > 57 \/ acc > 99999 THEN acc
    ELSE digits_value(Tail(value), acc * 10 + (value[1] - 48))

\* atoi (value): an optional sign and the decimal digits after it
atoi(value) ==
    IF value # << >> /\ value[1] = 45 THEN 0 - digits_value(Tail(value), 0)
    ELSE IF value # << >> /\ value[1] = 43 THEN digits_value(Tail(value), 0)
    ELSE digits_value(value, 0)

STR_autologin_timeout ==
    << 97, 117, 116, 111, 108, 111, 103, 105, 110, 45, 116, 105, 109, 101, 111, 117, 116 >>

\* ldm_greeter_get_autologin_timeout_hint, for the hints in table
autologin_timeout_hint(table) ==
    LET value == g_hash_table_lookup(table, STR_autologin_timeout)
        timeout == IF value # NULL THEN atoi(value[1]) ELSE 0
    IN  IF timeout < 0 THEN 0 ELSE timeout

\* *offset < length, for a gsize offset and a guint32 length
OffsetLess(offset, length) == length.hi >= 32768 \/ offset < U32Nat(length)

\* the loop of handle_connected: the hints after the name/value pairs from
\* offset on were inserted.  length is the payload length of the header,
\* offset counts from the start of the packet.
RECURSIVE connected_hints(_, _, _, _, _)
connected_hints(buffer, n, length, offset, table) ==
    IF ~OffsetLess(offset, length) THEN table
    ELSE LET name == read_string(buffer, n, offset)
             value == read_string(buffer, n, name.offset)
         IN  connected_hints(buffer, n, length, value.offset,
                             g_hash_table_insert(table, name.value, value.value))

\* the loop of handle_connected reading one string in each iteration
RECURSIVE connected_offsets_one_string(_, _, _, _)
connected_offsets_one_string(buffer, n, length, offset) ==
    IF ~OffsetLess(offset, length) THEN << offset >>
    ELSE LET name == read_string(buffer, n, offset)
         IN  << offset >> \o connected_offsets_one_string(buffer, n, length, name.offset)

\* the loop of handle_connected: the values of *offset at the evaluations of
\* the loop condition, the first one after the version was read
RECURSIVE connected_offsets(_, _, _, _)
connected_offsets(buffer, n, length, offset) ==
    IF ~OffsetLess(offset, length) THEN << offset >>
    ELSE LET name == read_string(buffer, n, offset)
             value == read_string(buffer, n, name.offset)
         IN  << offset >> \o connected_offsets(buffer, n, length, value.offset)

\* handle_connected (greeter, length, &offset)
handle_connected(buffer, n, length, offset) ==
    LET version == read_string(buffer, n, offset)
        table == connected_hints(buffer, n, length, version.offset, hints)
        timeout == autologin_timeout_hint(table)
    IN  /\ hints' = table
        /\ IF timeout # 0
           THEN /\ timeouts' = Append(timeouts, [seconds |-> timeout, state |-> "armed"])
                /\ login_timeout' = Len(timeouts) + 1
           ELSE UNCHANGED << timeouts, login_timeout >>
        /\ UNCHANGED cancelled_sources
        /\ emitted' = << Signal("connected", << >>, "", NoUser) >>

\* handle_session_failed (greeter, &offset): the signals it raises
handle_session_failed == << Signal("session-failed", << >>, "", NoUser) >>

\* handle_quit that raises the signal twice
handle_quit_twice ==
    << Signal("quit", << >>, "", NoUser), Signal("quit", << >>, "", NoUser) >>

\* handle_quit (greeter, &offset): the signals it raises
handle_quit == << Signal("quit", << >>, "", NoUser) >>

\* the switch of from_server_cb without the reset of n_read after it
handle_message_keeps_count(buffer, n) ==
    LET id == read_int(buffer, n, 0)
        length == read_int(buffer, n, id.offset)
        offset == length.offset
    IN  IF id.value = U32(SERVER_MESSAGE_CONNECTED)
        THEN /\ handle_connected(buffer, n, length.value, offset)
             /\ n_read' = n
             /\ UNCHANGED << authentication_user, is_authenticated,
                             cancelling_authentication, pc, cancel_state, pending_login >>
        ELSE IF id.value = U32(SERVER_MESSAGE_PROMPT_AUTHENTICATION)
        THEN /\ emitted' = handle_prompt_authentication(buffer, n, offset)
             /\ n_read' = n
             /\ UNCHANGED << authentication_user, is_authenticated,
                             cancelling_authentication, pc, cancel_state, pending_login >>
             /\ UNCHANGED hintVars
        ELSE IF id.value = U32(SERVER_MESSAGE_END_AUTHENTICATION)
        THEN /\ handle_end_authentication(buffer, n, offset)
             /\ UNCHANGED hintVars
        ELSE /\ emitted' =
                  IF id.value = U32(SERVER_MESSAGE_SESSION_FAILED)
                  THEN handle_session_failed
                  ELSE IF id.value = U32(SERVER_MESSAGE_QUIT)
                  THEN handle_quit
                  ELSE << >>
             /\ n_read' = n
             /\ UNCHANGED << authentication_user, is_authenticated,
                             cancelling_authentication, pc, cancel_state, pending_login >>
             /\ UNCHANGED hintVars

\* the switch of from_server_cb on the packet of n bytes in buffer, and the
\* reset of n_read after it
handle_message(buffer, n) ==
    LET id == read_int(buffer, n, 0)
        length == read_int(buffer, n, id.offset)
        offset == length.offset
    IN  IF id.value = U32(SERVER_MESSAGE_CONNECTED)
        THEN /\ handle_connected(buffer, n, length.value, offset)
             /\ n_read' = 0
             /\ UNCHANGED << authentication_user, is_authenticated,
                             cancelling_authentication, pc, cancel_state, pending_login >>
        ELSE IF id.value = U32(SERVER_MESSAGE_PROMPT_AUTHENTICATION)
        THEN /\ emitted' = handle_prompt_authentication(buffer, n, offset)
             /\ n_read' = 0
             /\ UNCHANGED << authentication_user, is_authenticated,
                             cancelling_authentication, pc, cancel_state, pending_login >>
             /\ UNCHANGED hintVars
        ELSE IF id.value = U32(SERVER_MESSAGE_END_AUTHENTICATION)
        THEN /\ handle_end_authentication(buffer, n, offset)
             /\ UNCHANGED hintVars
        ELSE /\ emitted' =
                  IF id.value = U32(SERVER_MESSAGE_SESSION_FAILED)
                  THEN handle_session_failed
                  ELSE IF id.value = U32(SERVER_MESSAGE_QUIT)
                  THEN handle_quit
                  ELSE << >>
             /\ n_read' = 0
             /\ UNCHANGED << authentication_user, is_authenticated,
                             cancelling_authentication, pc, cancel_state, pending_login >>
             /\ UNCHANGED hintVars

\* from_server_cb, called by the main loop when the whole frame f has arrived
\* (read_packet returns TRUE with f in the read buffer)
from_server_cb(f) ==
    /\ pc = "main"
    /\ from_server_watch
    /\ n_read = 0
    /\ read_buffer' = f.bytes
    /\ handle_message(f.bytes, Len(f.bytes))
    /\ to_server' = << >>
    /\ last' = Step("frame", NULL, f)
    /\ UNCHANGED << in_authentication, authenticate_sequence_number, issued, wraps >>
    /\ UNCHANGED << userVars, ioVars, system_bus >>

\* a counter that is not incremented
next_sequence_number_stuck(v) == v

\* authenticate_sequence_number++ and the bookkeeping of the numbers yielded
next_sequence_number(v) == U32Inc(v)

\* start_authentication that leaves cancelling_authentication as it is
start_authentication_keepcancel(user) ==
    LET sequence_number == next_sequence_number(authenticate_sequence_number)
    IN  /\ pc # "crashed"
        /\ Len(issued) < MaxLogins
        /\ cancelling_authentication' = cancelling_authentication
        /\ authenticate_sequence_number' = sequence_number
        /\ in_authentication' = TRUE
        /\ is_authenticated' = FALSE
        /\ authentication_user' = user
        /\ issued' = Append(issued, sequence_number)
        /\ wraps' = IF authenticate_sequence_number = U32Max THEN wraps + 1 ELSE wraps
        /\ cancel_state' = "none"
        /\ pending_login' = TRUE

\* the assignments at the head of ldm_greeter_login and ldm_greeter_login_as_guest
start_authentication(user) ==
    LET sequence_number == next_sequence_number(authenticate_sequence_number)
    IN  /\ pc # "crashed"
        /\ Len(issued) < MaxLogins
        /\ cancelling_authentication' = FALSE
        /\ authenticate_sequence_number' = sequence_number
        /\ in_authentication' = TRUE
        /\ is_authenticated' = FALSE
        /\ authentication_user' = user
        /\ issued' = Append(issued, sequence_number)
        /\ wraps' = IF authenticate_sequence_number = U32Max THEN wraps + 1 ELSE wraps
        /\ cancel_state' = "none"
        /\ pending_login' = TRUE

\* ldm_greeter_login (greeter, username); username may be NULL
ldm_greeter_login(username) ==
    LET name == IF username = NULL THEN << >> ELSE username[1]
        sequence_number == next_sequence_number(authenticate_sequence_number)
        m1 == write_header(<< >>, MAX_MESSAGE_LENGTH, GREETER_MESSAGE_LOGIN,
                           int_length + string_length(name))
        m2 == write_int(m1, MAX_MESSAGE_LENGTH, sequence_number)
        m3 == write_string(m2, MAX_MESSAGE_LENGTH, name)
    IN  /\ start_authentication(<< name >>)
        /\ write_message(m3)
        /\ emitted' = << >>
        /\ last' = Step("login", username, NoFrame)
        /\ UNCHANGED << read_buffer, n_read >>
        /\ UNCHANGED << userVars, connVars >>

ldm_greeter_login_as_guest ==
    LET sequence_number == next_sequence_number(authenticate_sequence_number)
        m1 == write_header(<< >>, MAX_MESSAGE_LENGTH, GREETER_MESSAGE_LOGIN_AS_GUEST,
                           int_length)
        m2 == write_int(m1, MAX_MESSAGE_LENGTH, sequence_number)
    IN  /\ start_authentication(NULL)
        /\ write_message(m2)
        /\ emitted' = << >>
        /\ last' = Step("login_as_guest", NULL, NoFrame)
        /\ UNCHANGED << read_buffer, n_read >>
        /\ UNCHANGED << userVars, connVars >>

\* ldm_greeter_respond that announces no response
ldm_greeter_respond_count0(response) ==
    LET m1 == write_header(<< >>, MAX_MESSAGE_LENGTH, GREETER_MESSAGE_CONTINUE_AUTHENTICATION,
                           int_length + string_length(response))
        m2 == write_int(m1, MAX_MESSAGE_LENGTH, U32(0))
        m3 == write_string(m2, MAX_MESSAGE_LENGTH, response)
    IN  /\ pc # "crashed"
        /\ write_message(m3)
        /\ emitted' = << >>
        /\ last' = Step("respond", << response >>, NoFrame)
        /\ UNCHANGED authVars
        /\ UNCHANGED << userVars, connVars >>

\* ldm_greeter_respond (greeter, response); response is not NULL
ldm_greeter_respond(response) ==
    LET m1 == write_header(<< >>, MAX_MESSAGE_LENGTH, GREETER_MESSAGE_CONTINUE_AUTHENTICATION,
                           int_length + string_length(response))
        m2 == write_int(m1, MAX_MESSAGE_LENGTH, U32(1))
        m3 == write_string(m2, MAX_MESSAGE_LENGTH, response)
    IN  /\ pc # "crashed"
        /\ write_message(m3)
        /\ emitted' = << >>
        /\ last' = Step("respond", << response >>, NoFrame)
        /\ UNCHANGED authVars
        /\ UNCHANGED << userVars, connVars >>

\* ldm_greeter_cancel_authentication that sets the flag only while an
\* authentication is in progress
ldm_greeter_cancel_authentication_guarded ==
    LET m1 == write_header(<< >>, MAX_MESSAGE_LENGTH, GREETER_MESSAGE_CANCEL_AUTHENTICATION, 0)
    IN  /\ pc # "crashed"
        /\ cancelling_authentication' = (cancelling_authentication \/ in_authentication)
        /\ cancel_state' = IF in_authentication THEN "pending" ELSE cancel_state
        /\ UNCHANGED pending_login
        /\ write_message(m1)
        /\ emitted' = << >>
        /\ last' = Step("cancel", NULL, NoFrame)
        /\ UNCHANGED << authentication_user, in_authentication, is_authenticated,
                        authenticate_sequence_number, read_buffer, n_read,
                        issued, wraps >>
        /\ UNCHANGED << userVars, connVars >>

\* ldm_greeter_cancel_authentication that ends the authentication locally
ldm_greeter_cancel_authentication_local ==
    LET m1 == write_header(<< >>, MAX_MESSAGE_LENGTH, GREETER_MESSAGE_CANCEL_AUTHENTICATION, 0)
    IN  /\ pc # "crashed"
        /\ cancelling_authentication' = TRUE
        /\ in_authentication' = FALSE
        /\ cancel_state' = IF in_authentication THEN "pending" ELSE cancel_state
        /\ UNCHANGED pending_login
        /\ write_message(m1)
        /\ emitted' = << >>
        /\ last' = Step("cancel", NULL, NoFrame)
        /\ UNCHANGED << authentication_user, is_authenticated,
                        authenticate_sequence_number, read_buffer, n_read,
                        issued, wraps >>
        /\ UNCHANGED << userVars, connVars >>

ldm_greeter_cancel_authentication ==
    LET m1 == write_header(<< >>, MAX_MESSAGE_LENGTH, GREETER_MESSAGE_CANCEL_AUTHENTICATION, 0)
    IN  /\ pc # "crashed"
        /\ cancelling_authentication' = TRUE
        /\ cancel_state' = IF in_authentication THEN "pending" ELSE cancel_state
        /\ UNCHANGED pending_login
        /\ write_message(m1)
        /\ emitted' = << >>
        /\ last' = Step("cancel", NULL, NoFrame)
        /\ UNCHANGED << authentication_user, in_authentication, is_authenticated,
                        authenticate_sequence_number, read_buffer, n_read,
                        issued, wraps >>
        /\ UNCHANGED << userVars, connVars >>

\* ldm_greeter_get_in_authentication (greeter)
ldm_greeter_get_in_authentication == in_authentication

\* ldm_greeter_get_is_authenticated (greeter)
ldm_greeter_get_is_authenticated == is_authenticated

\* ldm_greeter_get_authentication_user (greeter)
ldm_greeter_get_authentication_user == authentication_user

----------------------------------------------------------------------------
(* Connection: the channels, the reader of packets, the session request *)

\* the version string of the build (config.h)
VERSION == << 49, 46, 48 >>

STR_s == << 115 >>
STR_g == << 103 >>
STR_k == << 107 >>
STR_5 == << 53 >>
STR_gnome == << 103, 110, 111, 109, 101 >>

Sessions == { NULL, << STR_gnome >> }

Pair(name, value) == [name |-> name, value |-> value]

RECURSIVE EncodePairs(_)
EncodePairs(pairs) ==
    IF pairs = << >> THEN << >>
    ELSE IntBytes(U32(Len(pairs[1].name))) \o pairs[1].name
         \o IntBytes(U32(Len(pairs[1].value))) \o pairs[1].value
         \o EncodePairs(Tail(pairs))

ConnectedFrame(version, pairs) ==
    Frame(SERVER_MESSAGE_CONNECTED, U32(0), U32(0), NoMsgs, TRUE, FALSE,
          IntBytes(U32(Len(version))) \o version \o EncodePairs(pairs))

\* the hint lists of the CONNECTED frames: a timeout hint, a name that is
\* repeated, a last pair of two empty strings
HintLists ==
    { << Pair(STR_s, STR_g), Pair(STR_autologin_timeout, STR_5) >>,
      << Pair(STR_s, STR_k), Pair(STR_s, STR_g) >>,
      << Pair(STR_s, STR_k), Pair(<< >>, << >>) >> }

\* the frames the daemon writes to the stream the greeter reads in pieces
DaemonFrames ==
    { ConnectedFrame(VERSION, h) : h \in HintLists }
    \cup { Frame(SERVER_MESSAGE_QUIT, U32(0), U32(0), NoMsgs, TRUE, FALSE, << >>),
           PromptFrame(U32(0), << [style |-> PAM_PROMPT_ECHO_OFF, text |-> STR_pw] >>),
           EndFrame(U32(0), U32(0)) }

\* the frames that carry no authentication data, a CONNECTED frame with a hint
\* and an END_AUTHENTICATION frame that authenticates
SignalFrames ==
    OtherFrames \cup { ConnectedFrame(VERSION, << Pair(STR_s, STR_g) >>),
                       EndFrame(U32(0), U32(0)) }

\* the start of a frame whose header declares the longest payload: the header
\* and the first two bytes of the payload
LongestFrames ==
    { [id |-> SERVER_MESSAGE_CONNECTED, seq |-> U32(0), rc |-> U32(0), msgs |-> NoMsgs,
       wf |-> FALSE, hasSeq |-> FALSE,
       bytes |-> IntBytes(U32(SERVER_MESSAGE_CONNECTED)) \o IntBytes(U32Max) \o STR_al] }

\* the daemon writes a frame to its end of the pipe
daemon_sends(f) ==
    /\ Len(sent) < MaxFrames
    /\ pc # "crashed"
    /\ stream' = stream \o f.bytes
    /\ sent' = Append(sent, f.bytes)
    /\ emitted' = << >>
    /\ to_server' = << >>
    /\ last' = Step("daemon_sends", NULL, NoFrame)
    /\ UNCHANGED << to_server_channel, from_server_watch, dispatched, read_capacity, gsize_bits >>
    /\ UNCHANGED << authVars, userVars, hintVars, system_bus, pc >>

\* the daemon closes its end of the pipe the greeter writes to (or the pipe
\* is full): from now on g_io_channel_write_chars does not return
\* G_IO_STATUS_NORMAL
to_server_channel_fails ==
    /\ to_server_channel = "open"
    /\ pc # "crashed"
    /\ to_server_channel' = "broken"
    /\ emitted' = << >>
    /\ to_server' = << >>
    /\ last' = Step("channel_fails", NULL, NoFrame)
    /\ UNCHANGED << from_server_watch, stream, sent, dispatched, read_capacity, gsize_bits >>
    /\ UNCHANGED << authVars, userVars, hintVars, system_bus, pc >>

\* what the environment gives ldm_greeter_connect_to_server: no LightDM bus
\* or no LIGHTDM_TO_SERVER_FD, no LIGHTDM_FROM_SERVER_FD, both descriptors,
\* both descriptors with the one to the daemon not writable, both
\* descriptors but no system bus
Environments == { "no_bus", "no_from_fd", "ok", "closed_fd", "no_system_bus" }

\* ldm_greeter_connect_to_server (greeter), called once
ldm_greeter_connect_to_server(env) ==
    LET m1 == write_header(<< >>, MAX_MESSAGE_LENGTH, GREETER_MESSAGE_CONNECT,
                           string_length(VERSION))
        m2 == write_string(m1, MAX_MESSAGE_LENGTH, VERSION)
        channel == IF env = "closed_fd" THEN "broken" ELSE "open"
    IN  /\ pc = "main"
        /\ to_server_channel = "none"
        /\ IF env = "no_bus"
           THEN UNCHANGED << to_server_channel, from_server_watch, to_server, pc >>
           ELSE IF env = "no_from_fd"
           THEN /\ to_server_channel' = channel
                /\ UNCHANGED << from_server_watch, to_server, pc >>
           ELSE /\ to_server_channel' = channel
                /\ from_server_watch' = TRUE
                /\ write_message_to(channel, m2)
        /\ system_bus' = (env # "no_system_bus")
        /\ emitted' = << >>
        /\ last' = Step("connect", env, NoFrame)
        /\ UNCHANGED << stream, sent, dispatched, read_capacity, gsize_bits >>
        /\ UNCHANGED << authVars, userVars, hintVars >>

\* ldm_greeter_start_session (greeter, session); session may be NULL
ldm_greeter_start_session(session) ==
    LET name == IF session = NULL THEN << >> ELSE session[1]
        m1 == write_header(<< >>, MAX_MESSAGE_LENGTH, GREETER_MESSAGE_START_SESSION,
                           string_length(name))
        m2 == write_string(m1, MAX_MESSAGE_LENGTH, name)
    IN  /\ pc # "crashed"
        /\ write_message(m2)
        /\ emitted' = << >>
        /\ last' = Step("start_session", session, NoFrame)
        /\ UNCHANGED authVars
        /\ UNCHANGED << userVars, connVars >>

Min(a, b) == IF a < b THEN a ELSE b

\* A gsize is the sequence of its 16-bit limbs, the most significant first:
\* two limbs in a build with a gsize of 32 bits, four with 64 bits.
gsize(n, bits) ==
    [i \in 1..(bits \div 16) |->
        IF i = bits \div 16 THEN n % 65536
        ELSE IF i = bits \div 16 - 1 THEN n \div 65536 ELSE 0]

\* (gsize) value, for a guint32 value
gsize_of_guint32(value, bits) ==
    [i \in 1..(bits \div 16) |->
        IF i = bits \div 16 THEN value.lo
        ELSE IF i = bits \div 16 - 1 THEN value.hi ELSE 0]

\* the carry into limb i of a + b, and the borrow from limb i of a - b
RECURSIVE gsize_carry(_, _, _)
gsize_carry(a, b, i) ==
    IF i = Len(a) THEN 0
    ELSE (a[i + 1] + b[i + 1] + gsize_carry(a, b, i + 1)) \div 65536

RECURSIVE gsize_borrow(_, _, _)
gsize_borrow(a, b, i) ==
    IF i = Len(a) THEN 0
    ELSE IF a[i + 1] - b[i + 1] - gsize_borrow(a, b, i + 1) < 0 THEN 1 ELSE 0

\* a + b and a - b on gsize operands: the result wraps at the width
gsize_add(a, b) == [i \in DOMAIN a |-> (a[i] + b[i] + gsize_carry(a, b, i)) % 65536]
gsize_sub(a, b) == [i \in DOMAIN a |-> (a[i] - b[i] - gsize_borrow(a, b, i) + 65536) % 65536]

\* a < b on gsize operands
gsize_less(a, b) == gsize_borrow(a, b, 0) = 1

\* the smaller of the gsize count and the number m
gsize_min(count, m) ==
    IF gsize_less(count, gsize(m, Len(count) * 16))
    THEN count[Len(count) - 1] * 65536 + count[Len(count)]
    ELSE m

NoRead == [status |-> "none", n |-> 0]

\* what g_io_channel_read_chars may do with a request for count bytes when
\* the bytes pending are in the channel: read some of them, find none
\* (G_IO_STATUS_AGAIN, or G_IO_STATUS_EOF when the daemon has closed its end),
\* or fail
ReadResults(count, pending) ==
    { [status |-> "NORMAL", n |-> k] : k \in 1..gsize_min(count, Len(pending)) }
    \cup (IF pending = << >>
          THEN { [status |-> "AGAIN", n |-> 0], [status |-> "EOF", n |-> 0] }
          ELSE { })
    \cup { [status |-> "ERROR", n |-> 0] }

\* get_packet_length (greeter)
get_packet_length(buffer, n) == read_int(buffer, n, 4).value

\* n_to_read where read_packet is entered
n_to_read(rs) ==
    IF rs.n_read >= HEADER_SIZE
    THEN gsize_add(gsize(HEADER_SIZE, rs.bits),
                   gsize_of_guint32(get_packet_length(rs.buffer, rs.n_read), rs.bits))
    ELSE gsize(HEADER_SIZE, rs.bits)

\* n_to_read - greeter->priv->n_read, the count passed to g_io_channel_read_chars
read_count(rs) == gsize_sub(n_to_read(rs), gsize(rs.n_read, rs.bits))

\* g_realloc (read_buffer, HEADER_SIZE + n_to_read) for the content of the
\* packet whose header is in the buffer
realloc_for_content(rs) ==
    [rs EXCEPT !.capacity =
        gsize_add(gsize(HEADER_SIZE, rs.bits),
                  gsize_of_guint32(get_packet_length(rs.buffer, rs.n_read), rs.bits))]

\* read_chars that stores the bytes at the start of the buffer
read_chars_at_start(rs, r) ==
    IF r.status = "NORMAL"
    THEN [rs EXCEPT !.buffer = SubSeq(rs.stream, 1, r.n) \o SubSeq(rs.buffer, 1, rs.n_read),
                    !.n_read = rs.n_read + r.n,
                    !.stream = SubSeq(rs.stream, r.n + 1, Len(rs.stream))]
    ELSE rs

\* the body of the loop of read_packet, run once (block is FALSE): the read
\* with outcome r stores its bytes at read_buffer + n_read
read_chars(rs, r) ==
    IF r.status = "NORMAL"
    THEN [rs EXCEPT !.buffer = SubSeq(rs.buffer, 1, rs.n_read) \o SubSeq(rs.stream, 1, r.n),
                    !.n_read = rs.n_read + r.n,
                    !.stream = SubSeq(rs.stream, r.n + 1, Len(rs.stream))]
    ELSE rs

\* the header has just been read whole and announces a payload: read_packet
\* calls itself for the content
reads_content(rs, r1) ==
    LET s1 == read_chars(rs, r1)
    IN  /\ s1.n_read = HEADER_SIZE
        /\ gsize(s1.n_read, rs.bits) = n_to_read(rs)
        /\ get_packet_length(s1.buffer, s1.n_read) # U32(0)

\* read_packet (greeter, FALSE).  rs: the buffer, n_read, the capacity and
\* the pending bytes; r1: the outcome of the read, r2: the outcome of the
\* read of the call for the content.  complete is the return value.
read_packet(rs, r1, r2) ==
    LET s1 == read_chars(rs, r1)
    IN  IF gsize(s1.n_read, rs.bits) # n_to_read(rs) THEN [rs |-> s1, complete |-> FALSE]
        ELSE IF reads_content(rs, r1)
        THEN LET s2 == read_chars(realloc_for_content(s1), r2)
             IN  [rs |-> s2,
                  complete |-> (gsize(s2.n_read, rs.bits) = n_to_read(realloc_for_content(s1)))]
        ELSE [rs |-> s1, complete |-> TRUE]

\* the outcomes the read for the content may have after the read r1
ContentReads(rs, r1) ==
    IF reads_content(rs, r1)
    THEN ReadResults(read_count(realloc_for_content(read_chars(rs, r1))),
                     read_chars(rs, r1).stream)
    ELSE { NoRead }

ReaderState ==
    [buffer |-> read_buffer, n_read |-> n_read, capacity |-> read_capacity,
     stream |-> stream, bits |-> gsize_bits]

\* from_server_cb after read_packet has returned p: the buffer, the count and
\* the capacity it left and its return value.  Bytes stored past the capacity
\* of the buffer have overwritten the heap.
from_server_cb_packet(p, r1, r2) ==
    /\ stream' = p.rs.stream
    /\ read_buffer' = p.rs.buffer
    /\ read_capacity' = p.rs.capacity
    /\ IF p.complete
       THEN /\ handle_message(p.rs.buffer, p.rs.n_read)
            /\ dispatched' = Append(dispatched, SubSeq(p.rs.buffer, 1, p.rs.n_read))
       ELSE /\ n_read' = p.rs.n_read
            /\ emitted' = << >>
            /\ pc' \in (IF gsize_less(p.rs.capacity, gsize(p.rs.n_read, gsize_bits))
                        THEN { pc, "crashed" } ELSE { pc })
            /\ UNCHANGED << authentication_user, is_authenticated,
                            cancelling_authentication, cancel_state, pending_login,
                            dispatched >>
            /\ UNCHANGED hintVars
    /\ last' = Step("read", << r1.status, r2.status, p.complete >>, NoFrame)

\* from_server_cb, called by the main loop for G_IO_IN on the channel from
\* the daemon; the reads of read_packet have the outcomes r1 and r2.  It
\* returns TRUE whatever happens, so the watch stays.
from_server_cb_read_packet(r1, r2) ==
    /\ pc = "main"
    /\ from_server_watch
    /\ from_server_cb_packet(read_packet(ReaderState, r1, r2), r1, r2)
    /\ from_server_watch' = TRUE
    /\ to_server' = << >>
    /\ UNCHANGED << in_authentication, authenticate_sequence_number, issued, wraps >>
    /\ UNCHANGED << to_server_channel, sent, system_bus, gsize_bits >>
    /\ UNCHANGED userVars

----------------------------------------------------------------------------
(* User list *)

STR_bo == << 98, 111 >>
STR_cy == << 99, 121 >>
STR_zed == << 122, 101, 100 >>
STR_daemon == << 100, 97, 101, 109, 111, 110 >>
STR_nobody == << 110, 111, 98, 111, 100, 121 >>
STR_nobody4 == << 110, 111, 98, 111, 100, 121, 52 >>
STR_noaccess == << 110, 111, 97, 99, 99, 101, 115, 115 >>
COMMA == 44

\* the settings load_users uses when users.conf sets none
minimum_uid == 500
hidden_users == { STR_nobody, STR_nobody4, STR_noaccess }
hidden_shells == { "/bin/false", "/usr/sbin/nologin" }

\* struct passwd entries getpwent may return; files: which of .face and
\* .face.icon exist in pw_dir
Passwd(name, uid, shell, gecos, dir, files) ==
    [pw_name |-> name, pw_uid |-> uid, pw_shell |-> shell, pw_gecos |-> gecos,
     pw_dir |-> dir, files |-> files]

PasswdEntries ==
    { Passwd(STR_al, 1000, << "/bin/bash" >>, << >>, "/home/al", { }),
      Passwd(STR_al, 1000, << "/bin/bash" >>, STR_zed \o << COMMA >> \o STR_ok, "/home/al", { }),
      Passwd(STR_bo, 1001, << "/bin/bash" >>, << >>, "/home/bo", { }),
      Passwd(STR_bo, 1001, << "/bin/bash" >>, << >>, "/home/bo2", { }),
      Passwd(STR_cy, 1002, NULL, << >>, "/home/cy", { ".face.icon" }),
      Passwd(STR_daemon, 2, << "/usr/sbin/nologin" >>, STR_daemon, "/usr/sbin", { }) }

\* the sequences of entries one enumeration (setpwent .. getpwent == NULL) returns
Enumerations == UNION { [1..n -> PasswdEntries] : n \in 0..MaxEntries }

\* strcmp: negative, zero or positive
RECURSIVE strcmp(_, _)
strcmp(a, b) ==
    IF a = << >> /\ b = << >> THEN 0
    ELSE IF a = << >> THEN -1
    ELSE IF b = << >> THEN 1
    ELSE IF a[1] < b[1] THEN -1
    ELSE IF a[1] > b[1] THEN 1
    ELSE strcmp(Tail(a), Tail(b))

\* tokens[0] of g_strsplit (gecos, ",", -1): the bytes before the first comma
RECURSIVE first_token(_)
first_token(gecos) ==
    IF gecos = << >> \/ gecos[1] = COMMA THEN << >>
    ELSE << gecos[1] >> \o first_token(Tail(gecos))

\* the fields of an LdmUser
ldm_user_new(name, real_name, home_directory, image, logged_in) ==
    [name |-> name, real_name |-> real_name, home_directory |-> home_directory,
     image |-> image, logged_in |-> logged_in]

ldm_user_get_display_name(user) ==
    IF user.real_name # NULL THEN user.real_name[1] ELSE user.name

\* ldm_user_update: TRUE when a field differs from the user's
ldm_user_update(user, real_name, home_directory, image, logged_in) ==
    ~ ( /\ user.real_name = real_name
        /\ user.home_directory = home_directory
        /\ user.image = image
        /\ user.logged_in = logged_in )

compare_user(heap, a, b) ==
    strcmp(ldm_user_get_display_name(heap[a]), ldm_user_get_display_name(heap[b]))

\* g_list_insert_sorted (list, data, compare_user): data goes before the
\* first element it does not compare greater than
RECURSIVE g_list_insert_sorted(_, _, _)
g_list_insert_sorted(heap, list, data) ==
    IF list = << >> THEN << data >>
    ELSE IF compare_user(heap, data, list[1]) <= 0 THEN << data >> \o list
    ELSE << list[1] >> \o g_list_insert_sorted(heap, Tail(list), data)

Range(list) == { list[i] : i \in DOMAIN list }

\* the address of a newly allocated object: the lowest one not in use
NewId(heap) ==
    CHOOSE i \in 1..(Cardinality(DOMAIN heap) + 1) :
        i \notin DOMAIN heap /\ \A j \in 1..(i - 1) : j \in DOMAIN heap

Store(heap, id, user) ==
    [i \in DOMAIN heap \cup { id } |-> IF i = id THEN user ELSE heap[i]]

\* the image of a home directory: .face, else .face.icon, else none
user_image(entry) ==
    IF ".face" \in entry.files THEN << << entry.pw_dir, ".face" >> >>
    ELSE IF ".face.icon" \in entry.files THEN << << entry.pw_dir, ".face.icon" >> >>
    ELSE NULL

\* the position in the list priv->users of the first user called name, or 0
existing_user(heap, name) ==
    LET found == { i \in DOMAIN users : heap[users[i]].name = name }
    IN  IF found = { } THEN 0
        ELSE CHOOSE i \in found : \A j \in found : i <= j

\* load_entry that queues a user-added for a new user on the first load too
load_entry_notify_baseline(st, entry) ==
    IF entry.pw_uid < minimum_uid THEN st
    ELSE IF entry.pw_shell # NULL /\ entry.pw_shell[1] \in hidden_shells THEN st
    ELSE IF entry.pw_name \in hidden_users THEN st
    ELSE
    LET token == first_token(entry.pw_gecos)
        real_name == IF token # << >> THEN << token >> ELSE NULL
        image == user_image(entry)
        user == ldm_user_new(entry.pw_name, real_name, entry.pw_dir, image, FALSE)
        link == existing_user(st.heap, entry.pw_name)
    IN  IF link # 0
        THEN LET info == users[link]
                 changed == ldm_user_update(st.heap[info], user.real_name,
                                            user.home_directory, user.image,
                                            user.logged_in)
                 heap == Store(st.heap, info, user)
             IN  [heap |-> heap,
                  users |-> g_list_insert_sorted(heap, st.users, info),
                  new_users |-> st.new_users,
                  changed_users |->
                      IF changed THEN g_list_insert_sorted(heap, st.changed_users, info)
                      ELSE st.changed_users]
        ELSE LET id == NewId(st.heap)
                 heap == Store(st.heap, id, user)
             IN  [heap |-> heap,
                  users |-> g_list_insert_sorted(heap, st.users, id),
                  new_users |->
                      g_list_insert_sorted(heap, st.new_users, id),
                  changed_users |-> st.changed_users]

\* one iteration of the getpwent loop of load_users.  st holds the heap and
\* the lists users, new_users and changed_users; the list priv->users is the
\* one of the last load.
load_entry(st, entry) ==
    IF entry.pw_uid < minimum_uid THEN st
    ELSE IF entry.pw_shell # NULL /\ entry.pw_shell[1] \in hidden_shells THEN st
    ELSE IF entry.pw_name \in hidden_users THEN st
    ELSE
    LET token == first_token(entry.pw_gecos)
        real_name == IF token # << >> THEN << token >> ELSE NULL
        image == user_image(entry)
        user == ldm_user_new(entry.pw_name, real_name, entry.pw_dir, image, FALSE)
        link == existing_user(st.heap, entry.pw_name)
    IN  IF link # 0
        THEN LET info == users[link]
                 changed == ldm_user_update(st.heap[info], user.real_name,
                                            user.home_directory, user.image,
                                            user.logged_in)
                 heap == Store(st.heap, info, user)
             IN  [heap |-> heap,
                  users |-> g_list_insert_sorted(heap, st.users, info),
                  new_users |-> st.new_users,
                  changed_users |->
                      IF changed THEN g_list_insert_sorted(heap, st.changed_users, info)
                      ELSE st.changed_users]
        ELSE LET id == NewId(st.heap)
                 heap == Store(st.heap, id, user)
             IN  [heap |-> heap,
                  users |-> g_list_insert_sorted(heap, st.users, id),
                  new_users |->
                      IF have_users THEN g_list_insert_sorted(heap, st.new_users, id)
                      ELSE st.new_users,
                  changed_users |-> st.changed_users]

RECURSIVE load_entries(_, _)
load_entries(st, entries) ==
    IF entries = << >> THEN st
    ELSE load_entries(load_entry(st, entries[1]), Tail(entries))

\* the signals with the changes in the order of the three lists
notify_changes_changed_first(added, changed, removed) == changed \o added \o removed

\* the three loops "Notify of changes" of load_users
notify_changes(added, changed, removed) == added \o changed \o removed

\* the users of the old list that are not in the new one, in the old order
removed_users(old_list, new_list) ==
    SelectSeq(old_list, LAMBDA id : id \notin Range(new_list))

\* the first position of removed whose object an earlier position has
\* already unreferenced, or 0
first_freed_again(removed) ==
    LET again == { j \in DOMAIN removed : \E i \in 1..(j - 1) : removed[i] = removed[j] }
    IN  IF again = { } THEN 0
        ELSE CHOOSE j \in again : \A k \in again : j <= k

\* the list without the repetitions of its elements
RECURSIVE Distinct(_)
Distinct(list) ==
    IF list = << >> THEN << >>
    ELSE << list[1] >> \o Distinct(SelectSeq(Tail(list), LAMBDA x : x # list[1]))

IndexOf(list, x) == CHOOSE i \in DOMAIN list : list[i] = x

Snapshot(heap, list, id_of) ==
    [i \in DOMAIN list |->
        [id |-> id_of[list[i]], name |-> heap[list[i]].name,
         real_name |-> heap[list[i]].real_name,
         home_directory |-> heap[list[i]].home_directory,
         image |-> heap[list[i]].image,
         logged_in |-> heap[list[i]].logged_in]]

\* the end of load_users with the old list still in place while the signals
\* are raised
use_new_user_list_after_signals(st, removed, notified, kept, id_of) ==
    /\ old_users' = Snapshot(objects, users, id_of)
    /\ users' = [i \in DOMAIN users |-> id_of[users[i]]]
    /\ objects' = [i \in 1..Len(kept) |-> st.heap[kept[i]]]
    /\ emitted' = notify_changes(
           [i \in DOMAIN st.new_users |->
               Signal("user-added", ldm_user_get_display_name(st.heap[st.new_users[i]]),
                      "", id_of[st.new_users[i]])],
           [i \in DOMAIN st.changed_users |->
               Signal("user-changed", ldm_user_get_display_name(st.heap[st.changed_users[i]]),
                      "", id_of[st.changed_users[i]])],
           [i \in DOMAIN notified |->
               Signal("user-removed", ldm_user_get_display_name(st.heap[notified[i]]),
                      "", id_of[notified[i]])])
    /\ pc' = IF Len(notified) < Len(removed) THEN "crashed" ELSE "callback"

\* the end of load_users: the new list replaces the old one and the signals
\* are raised.  st is the outcome of the getpwent loop, removed the users to
\* report as removed, id_of the renumbering of the objects.
use_new_user_list(st, removed, notified, kept, id_of) ==
    /\ old_users' = Snapshot(objects, users, id_of)
    /\ users' = [i \in DOMAIN st.users |-> id_of[st.users[i]]]
    /\ objects' = [i \in 1..Len(kept) |-> st.heap[kept[i]]]
    /\ emitted' = notify_changes(
           [i \in DOMAIN st.new_users |->
               Signal("user-added", ldm_user_get_display_name(st.heap[st.new_users[i]]),
                      "", id_of[st.new_users[i]])],
           [i \in DOMAIN st.changed_users |->
               Signal("user-changed", ldm_user_get_display_name(st.heap[st.changed_users[i]]),
                      "", id_of[st.changed_users[i]])],
           [i \in DOMAIN notified |->
               Signal("user-removed", ldm_user_get_display_name(st.heap[notified[i]]),
                      "", id_of[notified[i]])])
    /\ pc' = IF Len(notified) < Len(removed) THEN "crashed" ELSE "callback"

Renumbering(all) == [id \in Range(all) |-> IndexOf(all, id)]

\* the removal loop of load_users.  An object that is twice in the old list
\* and not in the new one is used after its release; freed tells what the
\* build does then: "crash", or "stale" when it goes on with the released
\* object.
notify_removed(st, removed, again, freed) ==
    use_new_user_list(st, removed,
                      IF again # 0 /\ freed = "crash"
                      THEN SubSeq(removed, 1, again - 1) ELSE removed,
                      Distinct(st.users),
                      Renumbering(Distinct(st.users) \o Distinct(removed)))

replace_user_list(st, removed, freed) ==
    notify_removed(st, removed, first_freed_again(removed), freed)

find_removed(st, freed) ==
    replace_user_list(st, removed_users(users, st.users), freed)

\* load_users (greeter).  An address means nothing but the identity of its
\* object: when the load is over the objects are renumbered, the users of the
\* new list 1, 2, .. in the order of the list and the removed ones after them.
load_users(entries, freed) ==
    find_removed(load_entries([heap |-> objects, users |-> << >>,
                               new_users |-> << >>, changed_users |-> << >>],
                              entries),
                 freed)

\* passwd_changed_cb, called by the main loop for an event of the monitor
passwd_changed_cb(event_type, entries, freed) ==
    /\ pc = "main"
    /\ passwd_monitor
    /\ IF event_type = "CHANGES_DONE_HINT"
       THEN /\ load_users(entries, freed)
            /\ last' = Step("reload", NULL, NoFrame)
       ELSE /\ UNCHANGED << users, objects, old_users >>
            /\ pc' = "callback"
            /\ emitted' = << >>
            /\ last' = Step("passwd_event", NULL, NoFrame)
    /\ to_server' = << >>
    /\ UNCHANGED << have_users, passwd_monitor >>
    /\ UNCHANGED << authVars, connVars >>

\* update_users that loads the accounts at every call
update_users_every_call(entries, monitor) ==
    /\ pc \in { "main", "callback" }
    /\ load_users(entries, "crash")
    /\ passwd_monitor' = monitor
    /\ have_users' = TRUE
    /\ last' = Step(IF have_users THEN "get_users" ELSE "load", NULL, NoFrame)
    /\ to_server' = << >>
    /\ UNCHANGED << authVars, connVars >>

\* update_users (greeter), called by ldm_greeter_get_users,
\* ldm_greeter_get_num_users and ldm_greeter_get_user_by_name; monitor tells
\* whether g_file_monitor succeeds
update_users(entries, monitor) ==
    /\ pc \in { "main", "callback" }
    /\ IF have_users
       THEN /\ UNCHANGED << have_users, users, objects, passwd_monitor, old_users, pc >>
            /\ emitted' = << >>
            /\ last' = Step("get_users", NULL, NoFrame)
       ELSE /\ load_users(entries, "crash")
            /\ passwd_monitor' = monitor
            /\ have_users' = TRUE
            /\ last' = Step("load", NULL, NoFrame)
    /\ to_server' = << >>
    /\ UNCHANGED << authVars, connVars >>

\* the callback or the application's code returns to the main loop, which
\* waits for the next event; the record of the step is dropped
return_to_main_loop ==
    /\ pc = "callback"
    /\ pc' = "main"
    /\ emitted' = << >>
    /\ to_server' = << >>
    /\ last' = Step("idle", NULL, NoFrame)
    /\ old_users' = << >>
    /\ UNCHANGED << have_users, users, objects, passwd_monitor >>
    /\ UNCHANGED << authVars, connVars >>

----------------------------------------------------------------------------
(* The typed hint queries and the autologin timer *)

STR_default_session == << 100, 101, 102, 97, 117, 108, 116, 45, 115, 101, 115, 115, 105, 111, 110 >>
STR_hide_users == << 104, 105, 100, 101, 45, 117, 115, 101, 114, 115 >>
STR_has_guest_account == << 104, 97, 115, 45, 103, 117, 101, 115, 116, 45, 97, 99, 99, 111, 117, 110, 116 >>
STR_select_user == << 115, 101, 108, 101, 99, 116, 45, 117, 115, 101, 114 >>
STR_select_guest == << 115, 101, 108, 101, 99, 116, 45, 103, 117, 101, 115, 116 >>
STR_autologin_user == << 97, 117, 116, 111, 108, 111, 103, 105, 110, 45, 117, 115, 101, 114 >>
STR_autologin_guest == << 97, 117, 116, 111, 108, 111, 103, 105, 110, 45, 103, 117, 101, 115, 116 >>
STR_true == << 116, 114, 117, 101 >>
STR_TRUE == << 84, 82, 85, 69 >>
STR_0 == << 48 >>
STR_minus5 == << 45, 53 >>

\* a comparison that ignores the case of the letters
is_true_ignoring_case(value) == value # NULL /\ value[1] \in { STR_true, STR_TRUE }

\* g_strcmp0 (value, "true") == 0, for a value that may be NULL
is_true(value) == value # NULL /\ value[1] = STR_true

ldm_greeter_get_default_session_hint == ldm_greeter_get_hint(STR_default_session)

ldm_greeter_get_hide_users_hint == is_true(ldm_greeter_get_hint(STR_hide_users))

ldm_greeter_get_has_guest_account_hint ==
    is_true(ldm_greeter_get_hint(STR_has_guest_account))

ldm_greeter_get_select_user_hint == ldm_greeter_get_hint(STR_select_user)

ldm_greeter_get_select_guest_hint == is_true(ldm_greeter_get_hint(STR_select_guest))

ldm_greeter_get_autologin_user_hint == ldm_greeter_get_hint(STR_autologin_user)

ldm_greeter_get_autologin_guest_hint ==
    is_true(ldm_greeter_get_hint(STR_autologin_guest))

ldm_greeter_get_autologin_timeout_hint == autologin_timeout_hint(hints)

\* g_source_remove (id): the source is destroyed and will not be dispatched
g_source_remove(sources, id) ==
    IF id \in DOMAIN sources /\ sources[id].state = "armed"
    THEN [sources EXCEPT ![id].state = "removed"]
    ELSE sources

\* the main loop dispatches the source id, whose time has come, to
\* timed_login_cb; the callback returns FALSE, which destroys the source
timed_login_cb(id) ==
    /\ pc = "main"
    /\ id \in DOMAIN timeouts
    /\ timeouts[id].state = "armed"
    /\ login_timeout' = 0
    /\ timeouts' = [timeouts EXCEPT ![id].state = "fired"]
    /\ emitted' = << Signal("autologin-timer-expired", << >>, "", NoUser) >>
    /\ to_server' = << >>
    /\ last' = Step("timed_login_cb", << id >>, NoFrame)
    /\ UNCHANGED << hints, cancelled_sources >>
    /\ UNCHANGED << authVars, userVars, ioVars, system_bus, pc >>

\* ldm_greeter_cancel_timed_login (greeter)
ldm_greeter_cancel_timed_login ==
    /\ pc # "crashed"
    /\ timeouts' = IF login_timeout # 0 THEN g_source_remove(timeouts, login_timeout)
                   ELSE timeouts
    /\ login_timeout' = 0
    /\ cancelled_sources' = Len(timeouts)
    /\ emitted' = << >>
    /\ to_server' = << >>
    /\ last' = Step("cancel_timed_login", NULL, NoFrame)
    /\ UNCHANGED hints
    /\ UNCHANGED << authVars, userVars, ioVars, system_bus, pc >>

\* the hint lists of the CONNECTED frames of a daemon that is configured with
\* a timeout (positive, zero, negative), flags and names
TypedHintLists ==
    { << Pair(STR_autologin_timeout, STR_5) >>,
      << Pair(STR_autologin_timeout, STR_minus5), Pair(STR_hide_users, STR_true) >>,
      << Pair(STR_autologin_timeout, STR_0), Pair(STR_select_user, STR_al) >>,
      << Pair(STR_default_session, STR_gnome), Pair(STR_autologin_guest, STR_true),
         Pair(STR_hide_users, STR_TRUE) >> }

HintFrames == { ConnectedFrame(VERSION, h) : h \in TypedHintLists }

----------------------------------------------------------------------------
\* what may follow the version in the payload of a CONNECTED frame: pairs,
\* a name that ends less than 4 bytes before the end of the payload, a name
\* whose length is not there, pairs followed by such a name
HintBytes ==
    { << >>,
      EncodePairs(<< Pair(STR_s, STR_g) >>),
      EncodePairs(<< Pair(<< >>, << >>) >>),
      EncodePairs(<< Pair(STR_s, STR_g), Pair(STR_autologin_timeout, STR_5) >>),
      EncodePairs(<< Pair(STR_s, STR_k), Pair(<< >>, << >>), Pair(<< >>, << >>) >>),
      IntBytes(U32(2)) \o STR_al \o << 0, 0, 0 >>,
      IntBytes(U32(3)) \o STR_al \o STR_s \o << 0, 0 >>,
      IntBytes(U32(100)) \o STR_al \o STR_al \o STR_s,
      IntBytes(U32Max) \o IntBytes(U32Max) \o STR_s,
      EncodePairs(<< Pair(STR_s, STR_k) >>) \o IntBytes(U32(2)) \o STR_al \o << 0, 0, 0 >>,
      EncodePairs(<< Pair(STR_g, STR_k) >>) \o IntBytes(U32(1)) \o STR_s
          \o IntBytes(U32(100)) \o STR_al }

\* payloads of CONNECTED frames: a version and the bytes after it, a version
\* whose length is not there, less than the length of a version
ConnectedPayloads ==
    { IntBytes(U32(Len(VERSION))) \o VERSION \o h : h \in HintBytes }
    \cup { IntBytes(U32(100)) \o h : h \in HintBytes }
    \cup { << >>, << 0, 0 >> }

ConnectedFrames ==
    { Frame(SERVER_MESSAGE_CONNECTED, U32(0), U32(0), NoMsgs, FALSE, FALSE, payload) :
         payload \in ConnectedPayloads }

-----------------------------------------------------------------------------
(* The capability queries and actions: calls to UPower and ConsoleKit on the
   system bus *)

\* what g_dbus_proxy_call_sync returns: NULL with the error set, or the
\* reply, a tuple of values
Reply(type, value) == [type |-> type, value |-> value]

Replies ==
    { Reply("error", FALSE), Reply("(b)", TRUE), Reply("(b)", FALSE),
      Reply("()", FALSE), Reply("(s)", TRUE), Reply("(bb)", TRUE) }

\* the value the function returns when it returns: FALSE without a bus, a
\* proxy or a reply, the boolean of a reply of type (b), FALSE for another
function_result(bus, proxy, reply) ==
    IF ~bus \/ ~proxy \/ reply.type = "error" THEN FALSE
    ELSE IF reply.type = "(b)" THEN reply.value
    ELSE FALSE

\* the body of upower_call_function and ck_call_function.  proxy tells
\* whether g_dbus_proxy_new_sync created a proxy.  When it returned NULL,
\* g_dbus_proxy_call_sync returns NULL and leaves error NULL, and the warning
\* reads error->message: the read of a NULL pointer ends the process, or
\* yields something and the function returns FALSE.
call_function(service, function, proxy, reply) ==
    /\ pc # "crashed"
    /\ pc' \in (IF system_bus /\ ~proxy THEN { pc, "crashed" } ELSE { pc })
    /\ emitted' = << >>
    /\ to_server' = << >>
    /\ last' = Step("call_function",
                    << service, function, proxy, reply,
                       function_result(system_bus, proxy, reply) >>, NoFrame)
    /\ UNCHANGED << authVars, userVars, connVars >>

upower_call_function(function, proxy, reply) ==
    call_function("org.freedesktop.UPower", function, proxy, reply)

ck_call_function(function, proxy, reply) ==
    call_function("org.freedesktop.ConsoleKit", function, proxy, reply)

ldm_greeter_get_can_suspend(proxy, reply) == upower_call_function("SuspendAllowed", proxy, reply)

ldm_greeter_suspend(proxy, reply) == upower_call_function("Suspend", proxy, reply)

ldm_greeter_get_can_hibernate(proxy, reply) == upower_call_function("HibernateAllowed", proxy, reply)

ldm_greeter_hibernate(proxy, reply) == upower_call_function("Hibernate", proxy, reply)

ldm_greeter_get_can_restart(proxy, reply) == ck_call_function("CanRestart", proxy, reply)

ldm_greeter_restart(proxy, reply) == ck_call_function("Restart", proxy, reply)

ldm_greeter_get_can_shutdown(proxy, reply) == ck_call_function("CanStop", proxy, reply)

ldm_greeter_shutdown(proxy, reply) == ck_call_function("Stop", proxy, reply)

----------------------------------------------------------------------------
(* Inputs of the encoders: counters whose bytes differ, texts around the
   room of the message buffer *)

CounterSeeds ==
    { U32(0), U32(255), U32(65535), [hi |-> 255, lo |-> 65535],
      [hi |-> 32767, lo |-> 65535], U32Dec(U32Max) }

\* with 16 bytes of header, number and string length before it, a text of
\* MAX_MESSAGE_LENGTH - 17 bytes is the longest that write_string copies
CodecTexts ==
    { << >>, STR_al, Text(MAX_MESSAGE_LENGTH - 17), Text(MAX_MESSAGE_LENGTH - 16),
      Text(MAX_MESSAGE_LENGTH + 76) }

CodecUsernames == { NULL } \cup { << t >> : t \in CodecTexts }

----------------------------------------------------------------------------
(* Initial states *)

\* the session with no authentication in progress and the counter at v
InitAuth(v) ==
    /\ authentication_user = NULL
    /\ in_authentication = FALSE
    /\ is_authenticated = FALSE
    /\ authenticate_sequence_number = v
    /\ cancelling_authentication = FALSE
    /\ read_buffer = << >>
    /\ n_read = 0
    /\ pc = "main"
    /\ issued = << >>
    /\ wraps = 0
    /\ cancel_state = "none"
    /\ pending_login = FALSE

InitUsers ==
    /\ have_users = FALSE
    /\ users = << >>
    /\ objects = << >>
    /\ passwd_monitor = FALSE
    /\ old_users = << >>

InitGhost ==
    /\ emitted = << >>
    /\ to_server = << >>
    /\ last = Step("init", NULL, NoFrame)

\* no channel yet (watch = FALSE) or the channels of
\* ldm_greeter_connect_to_server; the read buffer has HEADER_SIZE bytes and
\* the hint table is empty
InitConn(watch) ==
    /\ to_server_channel = IF watch THEN "open" ELSE "none"
    /\ from_server_watch = watch
    /\ stream = << >>
    /\ sent = << >>
    /\ dispatched = << >>
    /\ read_capacity = gsize(HEADER_SIZE, gsize_bits)
    /\ hints = << >>
    /\ login_timeout = 0
    /\ timeouts = << >>
    /\ cancelled_sources = 0
    /\ system_bus = watch

\* ldm_greeter_init: the private data is zero-filled.  The width of gsize
\* matters to the sizes read_packet computes only; the build with 64 bits is
\* the one taken where the reader is not checked in both builds (InitBuilds).
Init == InitAuth(U32(0)) /\ InitUsers /\ InitGhost /\ gsize_bits = 64 /\ InitConn(FALSE)

\* the greeter after ldm_greeter_connect_to_server has returned TRUE
InitConnected ==
    InitAuth(U32(0)) /\ InitUsers /\ InitGhost /\ gsize_bits = 64 /\ InitConn(TRUE)

\* the greeter after 2^32 - 2 login calls, the last of them answered by a
\* failed END_AUTHENTICATION: the wrap-around of the 32-bit counter is within
\* reach of a few more calls
InitAged ==
    InitAuth(U32Dec(U32Max)) /\ InitUsers /\ InitGhost /\ gsize_bits = 64 /\ InitConn(TRUE)

----------------------------------------------------------------------------
(* The authentication session: the application's calls, from the main loop or
   from a handler of authentication-complete, and the frames of the daemon *)

NextAuth ==
    \/ \E username \in Usernames : ldm_greeter_login(username)
    \/ ldm_greeter_login_as_guest
    \/ \E response \in Responses : ldm_greeter_respond(response)
    \/ ldm_greeter_cancel_authentication
    \/ \E f \in ServerFrames(authenticate_sequence_number) : from_server_cb(f)
    \/ handle_end_authentication_return

SpecAuth == (InitConnected \/ InitAged) /\ [][NextAuth]_vars

----------------------------------------------------------------------------
(* The user list: the application's queries and the events of the file monitor *)

\* what the use of a released object may do; it can only happen when the
\* list holds an object twice
ReleasedObjectUse ==
    IF \E i, j \in DOMAIN users : i # j /\ users[i] = users[j]
    THEN { "crash", "stale" } ELSE { "stale" }

NextUsers ==
    \/ \E entries \in (IF have_users THEN { << >> } ELSE Enumerations),
          monitor \in (IF have_users THEN { TRUE } ELSE BOOLEAN) :
          update_users(entries, monitor)
    \/ \E entries \in Enumerations, freed \in ReleasedObjectUse :
          passwd_changed_cb("CHANGES_DONE_HINT", entries, freed)
    \/ passwd_changed_cb("CHANGED", << >>, "crash")
    \/ return_to_main_loop

SpecUsers == Init /\ [][NextUsers]_vars

----------------------------------------------------------------------------
(* The reader: the daemon writes frames, the main loop calls from_server_cb
   when the channel is readable, each read returns what it returns *)

NextRead ==
    \/ \E env \in Environments \ { "closed_fd", "no_system_bus" } :
          ldm_greeter_connect_to_server(env)
    \/ \E f \in DaemonFrames : daemon_sends(f)
    \/ \E r1 \in ReadResults(read_count(ReaderState), stream) :
          \E r2 \in ContentReads(ReaderState, r1) :
             from_server_cb_read_packet(r1, r2)
    \/ handle_end_authentication_return

SpecRead == Init /\ [][NextRead]_vars

\* the reader when the daemon writes QUIT, SESSION_FAILED and unknown frames
\* among other frames
NextReadSignals ==
    \/ \E env \in { "ok" } : ldm_greeter_connect_to_server(env)
    \/ \E f \in SignalFrames : daemon_sends(f)
    \/ \E r1 \in ReadResults(read_count(ReaderState), stream) :
          \E r2 \in ContentReads(ReaderState, r1) :
             from_server_cb_read_packet(r1, r2)
    \/ handle_end_authentication_return

SpecReadSignals == Init /\ [][NextReadSignals]_vars

\* the builds of the library: a gsize of 32 bits or of 64 bits
GsizeBits == { 32, 64 }

InitBuilds ==
    InitAuth(U32(0)) /\ InitUsers /\ InitGhost /\ gsize_bits \in GsizeBits /\ InitConn(FALSE)

\* the reader in each build, the daemon writing frames of every declared length
NextReadBuilds ==
    \/ \E env \in { "ok" } : ldm_greeter_connect_to_server(env)
    \/ \E f \in DaemonFrames \cup LongestFrames : daemon_sends(f)
    \/ \E r1 \in ReadResults(read_count(ReaderState), stream) :
          \E r2 \in ContentReads(ReaderState, r1) :
             from_server_cb_read_packet(r1, r2)
    \/ handle_end_authentication_return

SpecReadBuilds == InitBuilds /\ [][NextReadBuilds]_vars

----------------------------------------------------------------------------
(* The writer: the application's calls while the channel to the daemon may
   stop taking bytes *)

NextWrite ==
    \/ \E env \in Environments : ldm_greeter_connect_to_server(env)
    \/ to_server_channel_fails
    \/ \E username \in Usernames : ldm_greeter_login(username)
    \/ ldm_greeter_login_as_guest
    \/ \E response \in Responses : ldm_greeter_respond(response)
    \/ ldm_greeter_cancel_authentication
    \/ \E session \in Sessions : ldm_greeter_start_session(session)

SpecWrite == Init /\ [][NextWrite]_vars

----------------------------------------------------------------------------
(* The hints and the autologin timer: the daemon's CONNECTED frames, the
   main loop dispatching the timer sources, the application cancelling *)

NextHints ==
    \/ \E env \in { "ok", "no_from_fd" } : ldm_greeter_connect_to_server(env)
    \/ \E f \in HintFrames : Len(timeouts) < MaxSources /\ from_server_cb(f)
    \/ \E id \in DOMAIN timeouts : timed_login_cb(id)
    \/ ldm_greeter_cancel_timed_login

SpecHints == Init /\ [][NextHints]_vars

----------------------------------------------------------------------------
-----------------------------------------------------------------------------
(* The handshake: CONNECTED frames of every payload *)

NextConnected ==
    \E f \in ConnectedFrames : Len(timeouts) < MaxSources /\ from_server_cb(f)

SpecConnected == InitConnected /\ [][NextConnected]_vars

-----------------------------------------------------------------------------
(* The encoders: the application's calls on a greeter that made any number
   of login calls before, with arguments of any length *)

InitCodec ==
    \E v \in CounterSeeds :
        InitAuth(v) /\ InitUsers /\ InitGhost /\ gsize_bits = 64 /\ InitConn(TRUE)

NextCodec ==
    \/ \E username \in CodecUsernames : ldm_greeter_login(username)
    \/ ldm_greeter_login_as_guest
    \/ \E response \in CodecTexts : ldm_greeter_respond(response)
    \/ ldm_greeter_cancel_authentication
    \/ \E session \in CodecUsernames : ldm_greeter_start_session(session)

SpecCodec == InitCodec /\ [][NextCodec]_vars

----------------------------------------------------------------------------
(* The capabilities: the application's queries and actions, before and after
   the connection, with every outcome of the calls to the services *)

NextCapability ==
    \/ \E env \in Environments : ldm_greeter_connect_to_server(env)
    \/ \E proxy \in BOOLEAN, reply \in Replies :
          \/ ldm_greeter_get_can_suspend(proxy, reply)
          \/ ldm_greeter_suspend(proxy, reply)
          \/ ldm_greeter_get_can_hibernate(proxy, reply)
          \/ ldm_greeter_hibernate(proxy, reply)
          \/ ldm_greeter_get_can_restart(proxy, reply)
          \/ ldm_greeter_restart(proxy, reply)
          \/ ldm_greeter_get_can_shutdown(proxy, reply)
          \/ ldm_greeter_shutdown(proxy, reply)

SpecCapability == Init /\ [][NextCapability]_vars

----------------------------------------------------------------------------
(* Properties of the authentication session *)

IsFrameStep(step, id) == step.op = "frame" /\ step.frame.id = id

\* the sequence number from_server_cb's handlers decode from a frame
DecodedSeq(f) == read_int(f.bytes, Len(f.bytes), HEADER_SIZE).value

\* the message id and the payload length a written message declares
MessageId(m) == read_int(m, Len(m), 0).value
MessageLength(m) == read_int(m, Len(m), 4).value

AuthFields == << authenticate_sequence_number, in_authentication,
                 cancelling_authentication, is_authenticated, authentication_user >>

\* C1 as stated: each login or login_as_guest call yields a sequence number
\* strictly greater than the number of every earlier call.
C1_StrictlyIncreasing ==
    \A i, j \in DOMAIN issued : i < j => U32Lt(issued[i], issued[j])

\* C1 amended: as long as fewer than 2^32 calls have been made (the 32-bit
\* counter has not wrapped), each call yields a sequence number strictly
\* greater than the number of every earlier call.
C1_IncreasingUntilWrap ==
    wraps = 0 => \A i, j \in DOMAIN issued : i < j => U32Lt(issued[i], issued[j])

C1_Witness == wraps = 0 /\ Len(issued) >= 2

\* C2: a PROMPT_AUTHENTICATION or END_AUTHENTICATION frame whose sequence
\* number differs from the current one changes no field of the session and
\* raises no signal.
C2_StaleFrameIgnored ==
    [][ ( /\ last'.op = "frame"
          /\ last'.frame.id \in { SERVER_MESSAGE_PROMPT_AUTHENTICATION,
                                  SERVER_MESSAGE_END_AUTHENTICATION }
          /\ last'.frame.hasSeq
          /\ last'.frame.seq # authenticate_sequence_number )
        => /\ UNCHANGED AuthFields
           /\ emitted' = << >> ]_vars

\* a well-formed prompt with messages, answering a login that a later login
\* superseded, has been processed
C2_Witness ==
    /\ IsFrameStep(last, SERVER_MESSAGE_PROMPT_AUTHENTICATION)
    /\ last.frame.wf /\ last.frame.msgs # << >>
    /\ Len(issued) >= 2
    /\ last.frame.seq = issued[Len(issued) - 1]
    /\ in_authentication /\ ~cancelling_authentication

C5_Login ==
    [][ last'.op \in { "login", "login_as_guest" } =>
          /\ authenticate_sequence_number' = U32Inc(authenticate_sequence_number)
          /\ ~cancelling_authentication'
          /\ in_authentication'
          /\ authentication_user' =
                 IF last'.op = "login_as_guest" THEN NULL
                 ELSE IF last'.arg = NULL THEN << << >> >>
                 ELSE last'.arg
          /\ Len(to_server') = 1
          /\ MessageId(to_server'[1]) =
                 IF last'.op = "login" THEN U32(GREETER_MESSAGE_LOGIN)
                 ELSE U32(GREETER_MESSAGE_LOGIN_AS_GUEST)
          /\ read_int(to_server'[1], Len(to_server'[1]), HEADER_SIZE).value
                 = authenticate_sequence_number' ]_vars

\* login("al") has just started a second or later attempt: Cancelling is
\* clear and the recorded user is the one named in the call
C5_Witness ==
    /\ last.op = "login"
    /\ Len(issued) >= 2
    /\ cancel_state = "none"
    /\ ~cancelling_authentication
    /\ authentication_user = << STR_al >>

\* C6: cancel() sets Cancelling and sends exactly one CANCEL_AUTHENTICATION in
\* every state, leaving the sequence number, InProgress, authenticated and the
\* recorded user unchanged; InProgress and authenticated change only when a
\* matching END_AUTHENTICATION is processed or a login is started.
C6_Cancel ==
    [][ /\ last'.op = "cancel" =>
              /\ cancelling_authentication'
              /\ to_server' = << IntBytes(U32(GREETER_MESSAGE_CANCEL_AUTHENTICATION))
                                 \o IntBytes(U32(0)) >>
              /\ UNCHANGED << authenticate_sequence_number, in_authentication,
                              is_authenticated, authentication_user >>
        /\ ( \/ in_authentication' # in_authentication
             \/ is_authenticated' # is_authenticated ) =>
              \/ last'.op \in { "login", "login_as_guest" }
              \/ /\ IsFrameStep(last', SERVER_MESSAGE_END_AUTHENTICATION)
                 /\ DecodedSeq(last'.frame) = authenticate_sequence_number
              \/ last'.op = "end_return" ]_vars

\* cancel() was called with no authentication in progress
C6_Witness ==
    /\ last.op = "cancel"
    /\ ~in_authentication
    /\ cancelling_authentication
    /\ Len(to_server) = 1

\* the signal the claim names for a message of one of the four PAM styles
ExpectedSignal(m) ==
    IF m.style = PAM_PROMPT_ECHO_OFF THEN Signal("show-prompt", m.text, "secret", NoUser)
    ELSE IF m.style = PAM_PROMPT_ECHO_ON THEN Signal("show-prompt", m.text, "question", NoUser)
    ELSE IF m.style = PAM_ERROR_MSG THEN Signal("show-message", m.text, "error", NoUser)
    ELSE Signal("show-message", m.text, "info", NoUser)

KnownStyle(m) ==
    m.style \in { PAM_PROMPT_ECHO_OFF, PAM_PROMPT_ECHO_ON, PAM_ERROR_MSG, PAM_TEXT_INFO }

RECURSIVE ExpectedSignals(_)
ExpectedSignals(msgs) ==
    IF msgs = << >> THEN << >>
    ELSE (IF KnownStyle(msgs[1]) THEN << ExpectedSignal(msgs[1]) >> ELSE << >>)
         \o ExpectedSignals(Tail(msgs))

AcceptedPrompt ==
    /\ IsFrameStep(last, SERVER_MESSAGE_PROMPT_AUTHENTICATION)
    /\ last.frame.wf
    /\ last.frame.seq = authenticate_sequence_number
    /\ ~cancelling_authentication

\* C7 as stated: an accepted PROMPT raises one signal for each (style, text)
\* pair of its payload, in payload order.
C7_OneSignalPerPair ==
    AcceptedPrompt =>
        /\ Len(emitted) = Len(last.frame.msgs)
        /\ \A i \in DOMAIN emitted :
              KnownStyle(last.frame.msgs[i]) => emitted[i] = ExpectedSignal(last.frame.msgs[i])

\* C7 amended: an accepted PROMPT raises, in payload order, one signal for each
\* pair whose style is one of the four PAM styles (secret or question prompt,
\* error or info message, with the pair's text); a pair of another style
\* raises none.
C7_OneSignalPerKnownPair ==
    AcceptedPrompt => emitted = ExpectedSignals(last.frame.msgs)

C7_Witness ==
    /\ AcceptedPrompt
    /\ Len(last.frame.msgs) = 2
    /\ Len(emitted) = 2
    /\ emitted[1].sig = "show-message" /\ emitted[2].type = "error"

----------------------------------------------------------------------------
(* Properties of the user list *)

SignalRank(sig) ==
    IF sig = "user-added" THEN 1 ELSE IF sig = "user-changed" THEN 2 ELSE 3

\* s can be had from t by leaving elements out
RECURSIVE IsSubsequence(_, _)
IsSubsequence(s, t) ==
    IF s = << >> THEN TRUE
    ELSE IF t = << >> THEN FALSE
    ELSE IF s[1] = t[1] THEN IsSubsequence(Tail(s), Tail(t))
    ELSE IsSubsequence(s, Tail(t))

SignalsOf(sig) == SelectSeq(emitted, LAMBDA e : e.sig = sig)

SortedByDisplayName(signals) ==
    \A i, j \in DOMAIN signals : i < j => strcmp(signals[i].text, signals[j].text) <= 0

\* the signals of a reload come as the user-added, then the user-changed,
\* then the user-removed
C9_KindsInOrder ==
    last.op = "reload" =>
        \A i, j \in DOMAIN emitted :
            i < j => SignalRank(emitted[i].sig) <= SignalRank(emitted[j].sig)

C9_AddedSorted == last.op = "reload" => SortedByDisplayName(SignalsOf("user-added"))

C9_ChangedSorted == last.op = "reload" => SortedByDisplayName(SignalsOf("user-changed"))

C9_RemovedInOldOrder ==
    last.op = "reload" =>
        IsSubsequence([i \in DOMAIN SignalsOf("user-removed") |->
                          SignalsOf("user-removed")[i].user],
                      [i \in DOMAIN old_users |-> old_users[i].id])

\* C9: a reload emits every user-added (in display-name order), then every
\* user-changed (in display-name order), then every user-removed (in the
\* order of the previous list).
C9_NotificationOrder ==
    /\ C9_KindsInOrder
    /\ C9_AddedSorted
    /\ C9_ChangedSorted
    /\ C9_RemovedInOldOrder

OldNames == { old_users[i].name : i \in DOMAIN old_users }
NewNames == { objects[users[i]].name : i \in DOMAIN users }
OldUser(name) == old_users[CHOOSE i \in DOMAIN old_users : old_users[i].name = name]
NewUser(name) == objects[users[CHOOSE i \in DOMAIN users : objects[users[i]].name = name]]

FieldsDiffer(name) ==
    \/ OldUser(name).real_name # NewUser(name).real_name
    \/ OldUser(name).home_directory # NewUser(name).home_directory
    \/ OldUser(name).image # NewUser(name).image
    \/ OldUser(name).logged_in # NewUser(name).logged_in

OnlyHomeDiffers(name) ==
    /\ OldUser(name).real_name = NewUser(name).real_name
    /\ OldUser(name).home_directory # NewUser(name).home_directory
    /\ OldUser(name).image = NewUser(name).image
    /\ OldUser(name).logged_in = NewUser(name).logged_in

\* a reload of an account set with one record's home directory changed, one
\* record removed and one record added
RoundTripScenario ==
    /\ last.op = "reload"
    /\ Cardinality(OldNames) = Len(old_users)
    /\ Cardinality(NewNames) = Len(users)
    /\ Cardinality(OldNames \ NewNames) = 1
    /\ Cardinality(NewNames \ OldNames) = 1
    /\ Cardinality({ n \in OldNames \cap NewNames : FieldsDiffer(n) }) = 1
    /\ \A n \in OldNames \cap NewNames : FieldsDiffer(n) => OnlyHomeDiffers(n)

SignalKinds == [i \in DOMAIN emitted |-> emitted[i].sig]

\* C10 as stated: the reload of the scenario emits exactly one user-changed,
\* then one user-added, then one user-removed.
C10_ChangedAddedRemoved ==
    RoundTripScenario => SignalKinds = << "user-changed", "user-added", "user-removed" >>

\* C10 amended: the reload of the scenario emits exactly one user-added (the
\* added record), then one user-changed (the record whose home directory
\* changed), then one user-removed (the removed record).
C10_AddedChangedRemoved ==
    RoundTripScenario =>
        /\ SignalKinds = << "user-added", "user-changed", "user-removed" >>
        /\ objects[emitted[1].user].name \in NewNames \ OldNames
        /\ FieldsDiffer(objects[emitted[2].user].name)
        /\ \E i \in DOMAIN old_users :
              /\ old_users[i].id = emitted[3].user
              /\ old_users[i].name \in OldNames \ NewNames

C10_Witness ==
    /\ RoundTripScenario
    /\ Len(emitted) = 3
    /\ emitted[3].sig = "user-removed"

\* the account name of the user a signal of the last load carries
SignalName(e) ==
    IF e.user \in DOMAIN objects THEN objects[e.user].name
    ELSE old_users[CHOOSE i \in DOMAIN old_users : old_users[i].id = e.user].name

\* the number of signals sig the last load raised for the account name
SignalCount(sig, name) ==
    Cardinality({ i \in DOMAIN emitted :
                     emitted[i].sig = sig /\ SignalName(emitted[i]) = name })

\* no account name is twice in the list before the load or in the one after it
DistinctNames ==
    /\ Cardinality(OldNames) = Len(old_users)
    /\ Cardinality(NewNames) = Len(users)

\* C11: the first (baseline) load of the account database emits no
\* user-added, user-changed or user-removed notification, whatever accounts
\* it finds.
C11_BaselineSilent == last.op = "load" => emitted = << >>

\* the baseline load has found two accounts or more
C11_Witness ==
    /\ last.op = "load"
    /\ Len(users) >= 2
    /\ have_users

ExactNotifications ==
    \A name \in OldNames \cup NewNames :
        /\ SignalCount("user-added", name) = (IF name \in NewNames \ OldNames THEN 1 ELSE 0)
        /\ SignalCount("user-removed", name) = (IF name \in OldNames \ NewNames THEN 1 ELSE 0)
        /\ SignalCount("user-changed", name) =
               (IF name \in OldNames \cap NewNames /\ FieldsDiffer(name) THEN 1 ELSE 0)

\* C12: a reload with old name set O and new name set N raises user-added
\* exactly once for each name in N minus O, user-removed exactly once for
\* each name in O minus N, and user-changed exactly once for each name in
\* both whose real name, home directory, avatar or logged-in flag differs,
\* and for no other name.
C12_ExactNotifications == last.op = "reload" => ExactNotifications

\* the same for the reloads where no account name is twice in a list
C12_ExactNotificationsDistinctNames ==
    (last.op = "reload" /\ DistinctNames) => ExactNotifications

SameObjectKept ==
    \A i \in DOMAIN old_users :
        old_users[i].name \in NewNames =>
            \E j \in DOMAIN users :
                /\ users[j] = old_users[i].id
                /\ objects[users[j]].name = old_users[i].name

\* C13: a user whose name is present both before and after a reload is
\* represented by the same object after the reload, so a reference obtained
\* from the list before the reload still denotes that user.
C13_IdentityPreserved == last.op = "reload" => SameObjectKept

\* the same for the reloads where no account name is twice in a list
C13_IdentityPreservedDistinctNames ==
    (last.op = "reload" /\ DistinctNames) => SameObjectKept

DisplayNameOf(i) == ldm_user_get_display_name(objects[users[i]])

SortedUsers ==
    \A i, j \in DOMAIN users : i < j => strcmp(DisplayNameOf(i), DisplayNameOf(j)) <= 0

\* C14: after every load or reload the user list is sorted in non-decreasing
\* order of the case-sensitive display name (the real name when set, the
\* account name otherwise), also when a reload changes a user's real name.
C14_ListSorted == last.op \in { "load", "reload" } => SortedUsers

\* the same for the loads where no account name is twice in a list
C14_ListSortedDistinctNames ==
    (last.op \in { "load", "reload" } /\ DistinctNames) => SortedUsers

\* a reload has changed a real name, which moved its user behind another one
C14_RealNameMoved ==
    /\ last.op = "reload"
    /\ DistinctNames
    /\ \E i, j \in DOMAIN old_users, k, l \in DOMAIN users :
          /\ i < j /\ l < k
          /\ old_users[i].id = users[k]
          /\ old_users[j].id = users[l]
          /\ old_users[i].real_name # objects[users[k]].real_name

\* C15: after every load or reload, whatever sequence of account entries the
\* enumeration returns, the user list contains no two entries with the same
\* account name.
C15_NoDuplicateNames ==
    last.op \in { "load", "reload" } => Cardinality(NewNames) = Len(users)

----------------------------------------------------------------------------
(* Properties of the connection *)

RECURSIVE Flatten(_)
Flatten(frames) ==
    IF frames = << >> THEN << >> ELSE frames[1] \o Flatten(Tail(frames))

\* the bytes of a packet that is not dispatched yet
Buffered ==
    IF pc = "authentication_complete" THEN << >> ELSE SubSeq(read_buffer, 1, n_read)

LastDispatched == dispatched[Len(dispatched)]

PacketId(bytes) == read_int(bytes, Len(bytes), 0).value

\* C16: however the inbound byte stream is split across the non-blocking
\* reads (reads that return no data or stop inside a header or a payload
\* included), the packets handed to the dispatcher are, in order and byte for
\* byte, the frames the daemon wrote, as when each frame is delivered whole;
\* an incomplete frame is not dispatched and reading resumes where it stopped.
C16_SameFramesAsWhole ==
    /\ Len(dispatched) <= Len(sent)
    /\ \A i \in DOMAIN dispatched : dispatched[i] = sent[i]
    /\ Flatten(dispatched) \o Buffered \o stream = Flatten(sent)

\* a second frame, one with a payload, was completed by a read that resumed
\* inside the payload
C16_Witness ==
    /\ last.op = "read"
    /\ last.arg = << "NORMAL", "none", TRUE >>
    /\ Len(dispatched) >= 2
    /\ Len(LastDispatched) > HEADER_SIZE

ReadFailed ==
    /\ last.op = "read"
    /\ (last.arg[1] = "ERROR" \/ last.arg[2] = "ERROR")

\* C17: when a read from the inbound stream fails with an I/O error, this is
\* surfaced to the application (a notification is raised) and the reader is
\* not called again for a later readiness of the channel (the watch is gone).
C17_ReadErrorSurfaced ==
    ReadFailed => (emitted # << >> /\ ~from_server_watch)

\* what the code does for a failed read: nothing is raised, the bytes read
\* so far are kept and the watch stays
C17_ReadErrorIgnored ==
    ReadFailed => (emitted = << >> \/ last.arg[3]) /\ from_server_watch

\* C18: a failed write of an outbound message never crashes or terminates
\* the process; control returns to the caller.
C18_WriteFailureReturns == pc # "crashed"

\* a CONNECTED frame has been processed
ConnectedSeen ==
    \E i \in DOMAIN dispatched : PacketId(dispatched[i]) = U32(SERVER_MESSAGE_CONNECTED)

\* C19: after the first CONNECTED frame has been processed, no later inbound
\* message of any kind (a further CONNECTED frame included) adds, removes or
\* changes a hint.
C19_HintsSetOnce == [][ConnectedSeen => hints' = hints]_vars

\* the hints change only where a CONNECTED frame is processed
C19_OnlyConnectedSetsHints ==
    [][hints' # hints =>
          /\ last'.op = "read"
          /\ dispatched' # dispatched
          /\ PacketId(dispatched'[Len(dispatched')]) = U32(SERVER_MESSAGE_CONNECTED)]_vars

\* the name/value pairs the bytes of a payload hold from offset on
RECURSIVE PairsFrom(_, _)
PairsFrom(bytes, offset) ==
    IF offset >= Len(bytes) THEN << >>
    ELSE LET name == read_string(bytes, Len(bytes), offset)
             value == read_string(bytes, Len(bytes), name.offset)
         IN  << Pair(name.value, value.value) >> \o PairsFrom(bytes, value.offset)

\* the pairs a CONNECTED frame carries after its version string
PairsOf(bytes) ==
    PairsFrom(bytes, read_string(bytes, Len(bytes), HEADER_SIZE).offset)

\* the value of the last pair called name
LastValue(pairs, name) ==
    pairs[CHOOSE i \in DOMAIN pairs :
              /\ pairs[i].name = name
              /\ \A j \in DOMAIN pairs : pairs[j].name = name => j <= i].value

ConnectedProcessed ==
    /\ last.op = "read"
    /\ last.arg[3]
    /\ PacketId(LastDispatched) = U32(SERVER_MESSAGE_CONNECTED)

HintsOfLastFrame ==
    /\ emitted = << Signal("connected", << >>, "", NoUser) >>
    /\ \A i \in DOMAIN PairsOf(LastDispatched) :
          ldm_greeter_get_hint(PairsOf(LastDispatched)[i].name)
              = << LastValue(PairsOf(LastDispatched), PairsOf(LastDispatched)[i].name) >>

\* C20: after a CONNECTED frame has been processed, get_hint(name) returns,
\* for every name/value pair of its payload after the version string, that
\* pair's value (the value of the last pair when a name repeats), and the
\* hints are in place when the connected notification is raised.
C20_HintsQueryable == ConnectedProcessed => HintsOfLastFrame

\* the same for the frames that do not end with a pair of two empty strings
C20_HintsQueryableButEmptyLastPair ==
    ( /\ ConnectedProcessed
      /\ PairsOf(LastDispatched)[Len(PairsOf(LastDispatched))] # Pair(<< >>, << >>) )
    => HintsOfLastFrame

----------------------------------------------------------------------------
(* Properties of the autologin timer and of the typed hint queries *)

\* the string is a decimal integer greater than zero
IsPositiveInteger(value) ==
    /\ value # << >>
    /\ \A i \in DOMAIN value : value[i] >= 48 /\ value[i] <= 57
    /\ \E i \in DOMAIN value : value[i] # 48

\* the step armed a timer source and recorded its id
Armed ==
    /\ Len(timeouts') = Len(timeouts) + 1
    /\ timeouts'[Len(timeouts')].state = "armed"
    /\ login_timeout' = Len(timeouts')

ArmedOnPositiveTimeout ==
    last'.op = "frame" /\ last'.frame.id = SERVER_MESSAGE_CONNECTED
        => (Armed <=> /\ STR_autologin_timeout \in DOMAIN hints'
                      /\ IsPositiveInteger(hints'[STR_autologin_timeout]))

\* only a CONNECTED frame creates a source, a source that fired or was
\* removed stays so, and only ldm_greeter_cancel_timed_login removes one
FiresAtMostOnce ==
    /\ timeouts' # timeouts /\ last'.op # "frame"
          => Len(timeouts') = Len(timeouts)
    /\ \A id \in DOMAIN timeouts :
          /\ timeouts[id].state # "armed" => timeouts'[id] = timeouts[id]
          /\ timeouts'[id].state = "removed" /\ timeouts[id].state = "armed"
                => last'.op = "cancel_timed_login"
          /\ timeouts'[id].state = "fired" /\ timeouts[id].state = "armed"
                => /\ last'.op = "timed_login_cb"
                   /\ emitted' = << Signal("autologin-timer-expired", << >>, "", NoUser) >>
    /\ (\E i \in DOMAIN emitted' : emitted'[i].sig = "autologin-timer-expired")
          => last'.op = "timed_login_cb"

\* the source that fires was armed after the last call of
\* ldm_greeter_cancel_timed_login
NotFiredAfterCancel ==
    last'.op = "timed_login_cb" => last'.arg[1] > cancelled_sources

\* C21: a timer is armed by a CONNECTED frame exactly when the
\* autologin-timeout hint is a positive integer; an armed timer raises
\* autologin-timer-expired once unless ldm_greeter_cancel_timed_login is called
\* before, and never after ldm_greeter_cancel_timed_login was called.
C21_AutologinTimer ==
    [][ArmedOnPositiveTimeout /\ FiresAtMostOnce /\ NotFiredAfterCancel]_vars

\* C21 for the timer of the first handshake, as long as no second one came:
\* it is armed on a positive timeout, fires at most once and not after a cancel
C21_AutologinTimerFirstHandshake ==
    [][Len(timeouts') <= 1 =>
          ArmedOnPositiveTimeout /\ FiresAtMostOnce /\ NotFiredAfterCancel]_vars

\* a timeout was cancelled and did not fire; another fired
C21_Witness ==
    /\ Len(timeouts) = 2
    /\ timeouts[2].state = "removed"
    /\ timeouts[1].state = "fired"
    /\ last.op = "timed_login_cb"


StringHintQueries ==
    { [key |-> STR_default_session, value |-> ldm_greeter_get_default_session_hint],
      [key |-> STR_select_user, value |-> ldm_greeter_get_select_user_hint],
      [key |-> STR_autologin_user, value |-> ldm_greeter_get_autologin_user_hint] }

BooleanHintQueries ==
    { [key |-> STR_hide_users, value |-> ldm_greeter_get_hide_users_hint],
      [key |-> STR_has_guest_account, value |-> ldm_greeter_get_has_guest_account_hint],
      [key |-> STR_select_guest, value |-> ldm_greeter_get_select_guest_hint],
      [key |-> STR_autologin_guest, value |-> ldm_greeter_get_autologin_guest_hint] }

\* the boolean and integer queries for absent keys, and a boolean query is
\* TRUE only for the value "true"
BooleanAndIntegerDefaults ==
    /\ \A q \in BooleanHintQueries :
          /\ q.key \notin DOMAIN hints => q.value = FALSE
          /\ q.value = TRUE => q.key \in DOMAIN hints /\ hints[q.key] = STR_true
    /\ STR_autologin_timeout \notin DOMAIN hints
          => ldm_greeter_get_autologin_timeout_hint = 0

\* C22: for a hint key that is absent, the string queries yield the empty
\* string, the boolean queries FALSE and the autologin-timeout query zero; a
\* boolean query yields TRUE only when the stored value is exactly "true".
C22_AbsentHintDefaults ==
    /\ \A q \in StringHintQueries :
          q.key \notin DOMAIN hints => q.value = << << >> >>
    /\ BooleanAndIntegerDefaults

\* C22 as the code has it: for an absent key the string queries yield NULL
\* (no string at all), the boolean queries FALSE and the autologin-timeout
\* query zero; a boolean query yields TRUE only for the value "true".
C22_AbsentHintIsNull ==
    /\ \A q \in StringHintQueries : q.key \notin DOMAIN hints => q.value = NULL
    /\ BooleanAndIntegerDefaults

\* the handshake brought hide-users = "TRUE" and autologin-guest = "true" and
\* neither a timeout nor a user to select
C22_Witness ==
    /\ last.op = "frame"
    /\ STR_hide_users \in DOMAIN hints /\ hints[STR_hide_users] = STR_TRUE
    /\ ~ldm_greeter_get_hide_users_hint
    /\ ldm_greeter_get_autologin_guest_hint
    /\ STR_autologin_timeout \notin DOMAIN hints
    /\ STR_select_user \notin DOMAIN hints
    /\ ldm_greeter_get_select_user_hint = NULL

----------------------------------------------------------------------------
(* Properties of the wire codec *)

\* the LOGIN message written by the last step, decoded as the daemon does:
\* the header as a frame, then the fields of the payload
DecodedLogin ==
    LET m == to_server[1]
        id == read_int(m, Len(m), 0)
        length == read_int(m, Len(m), id.offset)
        number == read_int(m, Len(m), length.offset)
        username == read_string(m, Len(m), number.offset)
    IN  [id |-> id.value, length |-> length.value, number |-> number.value,
         username |-> username.value, payload |-> Len(m) - HEADER_SIZE]

LoginRoundTrip ==
    /\ DecodedLogin.id = U32(GREETER_MESSAGE_LOGIN)
    /\ DecodedLogin.length = U32(DecodedLogin.payload)
    /\ DecodedLogin.number = authenticate_sequence_number
    /\ DecodedLogin.username = (IF last.arg = NULL THEN << >> ELSE last.arg[1])

\* C23: the LOGIN message written for sequence number N and username U decodes
\* to the id LOGIN, a payload length equal to the payload bytes written, and
\* exactly N and U, for every N and every U.
C23_LoginRoundTrip ==
    last.op = "login" /\ to_server # << >> => LoginRoundTrip

\* C23 for the usernames that leave room in the message buffer (less than
\* MAX_MESSAGE_LENGTH - 16 bytes)
C23_LoginRoundTripShortUsername ==
    ( /\ last.op = "login" /\ to_server # << >>
      /\ (last.arg # NULL => Len(last.arg[1]) < MAX_MESSAGE_LENGTH - 16) )
    => LoginRoundTrip

\* the longest username that is carried, after the counter crossed a byte
C23_Witness ==
    /\ last.op = "login"
    /\ last.arg = << Text(MAX_MESSAGE_LENGTH - 17) >>
    /\ authenticate_sequence_number = U32(65536)
    /\ LoginRoundTrip

\* buffer lengths, fills and texts around each other; the bytes a call adds
\* go to the indexes from the old offset up to the new offset
SmallLengths == 0..12

SmallWritesInBounds ==
    \A buffer_length \in SmallLengths, fill \in SmallLengths, length \in SmallLengths :
       fill <= buffer_length =>
          /\ Len(write_int(Text(fill), buffer_length, U32(length))) <= buffer_length
          /\ Len(write_string(Text(fill), buffer_length, Text(length))) <= buffer_length
          /\ Len(write_header(Text(fill), buffer_length, length, length)) <= buffer_length

ReadIntClosed(buffer, n, offset) ==
    LET r == read_int(buffer, n, offset)
    IN  IF n - offset < 4
        THEN r = [value |-> U32(0), offset |-> offset]
        ELSE /\ r.offset = offset + 4
             /\ r.offset <= n
             /\ IntBytes(r.value) = SubSeq(buffer, offset + 1, offset + 4)

\* read_string at offset: when the declared length exceeds the bytes left
\* after it the value is empty, else it is the bytes declared, which lie
\* before n
ReadStringClosed(buffer, n, offset) ==
    LET l == read_int(buffer, n, offset)
        r == read_string(buffer, n, offset)
    IN  IF l.value.hi >= 32768 \/ U32Nat(l.value) > n - l.offset
        THEN r = [value |-> << >>, offset |-> l.offset]
        ELSE /\ r.offset = l.offset + U32Nat(l.value)
             /\ r.offset <= n
             /\ r.value = SubSeq(buffer, l.offset + 1, r.offset)

\* C24: for every frame received and every offset in it, read_int and
\* read_string read no byte at or beyond the number of bytes received; an
\* integer with fewer than 4 bytes left decodes as 0, a string whose declared
\* length exceeds the bytes left decodes as the empty string, and the process
\* does not crash.
C24_DecodeFailsClosed ==
    /\ \A offset \in 0..Len(read_buffer) :
          /\ ReadIntClosed(read_buffer, Len(read_buffer), offset)
          /\ ReadStringClosed(read_buffer, Len(read_buffer), offset)
    /\ last.op = "frame" => pc # "crashed"

\* a PROMPT_AUTHENTICATION frame of the current number was handled whose
\* first text declares 9 bytes with 2 left: the prompt shown has no text, and
\* the style of the second message, with 2 bytes left, is read as 0
C24_Witness ==
    /\ last.op = "frame"
    /\ last.frame.id = SERVER_MESSAGE_PROMPT_AUTHENTICATION
    /\ ~last.frame.wf
    /\ Len(read_buffer) = 26
    /\ read_int(read_buffer, 26, 20).value = U32(9)
    /\ read_string(read_buffer, 26, 20) = [value |-> << >>, offset |-> 24]
    /\ read_int(read_buffer, 26, 24) = [value |-> U32(0), offset |-> 24]
    /\ Len(emitted) = 1 /\ emitted[1].text = << >>

----------------------------------------------------------------------------
(* Properties of the states of the authentication session *)

\* C26: ldm_greeter_get_authentication_user yields NULL in every state where
\* in_authentication is false.
C26_NoUserUnlessInProgress ==
    ~ldm_greeter_get_in_authentication => ldm_greeter_get_authentication_user = NULL

\* the step handled a whole END_AUTHENTICATION frame of the current number
AcceptedEnd ==
    /\ IsFrameStep(last', SERVER_MESSAGE_END_AUTHENTICATION)
    /\ last'.frame.wf
    /\ last'.frame.seq = authenticate_sequence_number

\* what the handlers of authentication-complete find when they start
SeenByHandlers ==
    /\ ldm_greeter_get_in_authentication'
    /\ ldm_greeter_get_is_authenticated' = (last'.frame.rc = U32(0))
    /\ ldm_greeter_get_authentication_user' =
           IF last'.frame.rc = U32(0) THEN authentication_user ELSE NULL
    /\ pc' = "authentication_complete"

ClearedAfterHandlers ==
    in_authentication /\ ~in_authentication'
        => pc = "authentication_complete" /\ last'.op = "end_return"

\* C28: the handlers of authentication-complete find in_authentication still
\* true and is_authenticated and the recorded user already updated;
\* in_authentication becomes false only after the handlers have returned.
C28_CompleteBeforeIdle ==
    [][(AcceptedEnd => SeenByHandlers) /\ ClearedAfterHandlers]_vars

\* C28 for the END_AUTHENTICATION frames that arrive while an authentication
\* is in progress
C28_CompleteBeforeIdleInProgress ==
    [][(AcceptedEnd /\ in_authentication => SeenByHandlers) /\ ClearedAfterHandlers]_vars

\* C29: in every reachable state Cancelling implies InProgress.
C29_CancellingImpliesInProgress ==
    cancelling_authentication => in_authentication

\* C29 as the code has it: Cancelling does not imply InProgress.  A cancel
\* call sets the flag in every state, Idle included, and leaves InProgress as
\* it is; the flag becomes true by a cancel call only, and becomes false only
\* by a login call or an END_AUTHENTICATION frame of the current number.
C29_CancellingInEveryState ==
    [][ /\ last'.op = "cancel" =>
              /\ cancelling_authentication'
              /\ in_authentication' = in_authentication
        /\ ~cancelling_authentication /\ cancelling_authentication'
              => last'.op = "cancel"
        /\ cancelling_authentication /\ ~cancelling_authentication'
              => \/ last'.op \in { "login", "login_as_guest" }
                 \/ /\ IsFrameStep(last', SERVER_MESSAGE_END_AUTHENTICATION)
                    /\ DecodedSeq(last'.frame) = authenticate_sequence_number ]_vars

\* Cancelling in the Idle state: cancel was called after the
\* END_AUTHENTICATION of the only attempt had been handled
C29_Witness ==
    /\ last.op = "cancel"
    /\ cancelling_authentication
    /\ ~in_authentication
    /\ Len(issued) = 1
    /\ pc = "main"
    /\ is_authenticated

----------------------------------------------------------------------------
(* Properties of the capability queries and actions *)

CallProxy == last.arg[3]
CallReply == last.arg[4]
CallResult == last.arg[5]

\* the result is FALSE without a bus, without a proxy and when the call
\* failed, and TRUE only for a reply that is a single boolean TRUE
ResultDegrades ==
    /\ ~system_bus \/ ~CallProxy \/ CallReply.type = "error" => CallResult = FALSE
    /\ CallResult = TRUE => CallReply = Reply("(b)", TRUE)

\* C27: every capability query or action ends without crashing the greeter;
\* it yields FALSE when the system bus is absent, when the proxy cannot be
\* created or when the call fails, and TRUE only when the service replied
\* with a single boolean that is TRUE.
C27_CapabilityDegrades ==
    last.op = "call_function" => pc # "crashed" /\ ResultDegrades

\* C27 for the calls whose proxy was created or that found no system bus
C27_CapabilityDegradesWithProxy ==
    last.op = "call_function" /\ (CallProxy \/ ~system_bus)
        => pc # "crashed" /\ ResultDegrades

\* the proxy of ConsoleKit could not be created for CanStop
C27_Witness ==
    /\ last.op = "call_function"
    /\ last.arg[2] = "CanStop"
    /\ system_bus
    /\ ~CallProxy
    /\ pc = "crashed"

----------------------------------------------------------------------------
(* Properties of the dispatch of frames *)

\* the step handed a packet to the dispatcher: the packet is a header and
\* the payload the header declares, it is what the buffer holds, it is the
\* next frame the daemon wrote, and the count of buffered bytes is 0 when
\* from_server_cb has returned
DispatchedWhole ==
    LET p == dispatched'[Len(dispatched')]
    IN  /\ Len(dispatched') = Len(dispatched) + 1
        /\ Len(p) >= HEADER_SIZE
        /\ Len(p) = HEADER_SIZE + U32Nat(get_packet_length(p, Len(p)))
        /\ p = SubSeq(read_buffer', 1, Len(p))
        /\ Len(dispatched') <= Len(sent)
        /\ p = sent[Len(dispatched')]
        /\ IF pc' = "authentication_complete" THEN n_read' = Len(p) ELSE n_read' = 0

\* a read that completes no packet hands nothing to the handlers, and what
\* it leaves in the buffer is the head of the next frame, not all of it
NothingHanded ==
    /\ emitted' = << >>
    /\ UNCHANGED << AuthFields, hints >>
    /\ n_read' > 0 =>
          /\ Len(dispatched) < Len(sent)
          /\ n_read' < Len(sent[Len(dispatched) + 1])
          /\ SubSeq(read_buffer', 1, n_read') = SubSeq(sent[Len(dispatched) + 1], 1, n_read')

\* C30: a frame is handed to the dispatcher only when its 8 header bytes and
\* all the payload bytes the header declares are buffered, each complete
\* frame is dispatched exactly once, and after the dispatch the count of
\* buffered bytes is 0, so that the next frame is read from its own header.
C30_DispatchWhenComplete ==
    [][ /\ dispatched' # dispatched => DispatchedWhole
        /\ last'.op = "read" /\ dispatched' = dispatched => NothingHanded
        /\ last'.op = "end_return" => n_read' = 0
        /\ last.op = "read" /\ last.arg[3] /\ pc = "main" /\ last'.op = "read"
              => n_to_read(ReaderState) = gsize(HEADER_SIZE, gsize_bits) /\ n_read = 0 ]_vars

\* a frame with a payload was dispatched after a frame before it, by a
\* callback whose first read ended the header and whose second read ended
\* the payload
C30_Witness ==
    /\ last.op = "read"
    /\ last.arg = << "NORMAL", "NORMAL", TRUE >>
    /\ Len(dispatched) = 2
    /\ Len(LastDispatched) > HEADER_SIZE
    /\ n_read = 0

----------------------------------------------------------------------------
(* Properties of the loading of the user list *)

\* C31: the account database is enumerated on the first user query and after
\* that only when the file watch reports a completed change; later calls of
\* get_users, get_num_users and get_user_by_name neither enumerate nor notify,
\* and at most one file watch is ever installed.
C31_EnumeratedOnceThenOnChange ==
    [][ /\ last'.op = "load" => ~have_users /\ have_users'
        /\ last'.op = "reload" => have_users /\ passwd_monitor
        /\ last'.op = "get_users" =>
              /\ have_users
              /\ emitted' = << >>
              /\ UNCHANGED << users, objects, have_users, passwd_monitor >>
        /\ (users' # users \/ objects' # objects \/ emitted' # << >>)
              => last'.op \in { "load", "reload" }
        /\ passwd_monitor' # passwd_monitor
              => ~passwd_monitor /\ ~have_users /\ last'.op = "load"
        /\ have_users => have_users' ]_vars

\* a later query of a list of two users or more, with the watch installed
C31_Witness ==
    /\ last.op = "get_users"
    /\ have_users
    /\ passwd_monitor
    /\ Len(users) >= 2

\* ldm_greeter_get_users (greeter) from a handler of a user signal: the
\* objects of the list
ListedUsers == { users[i] : i \in DOMAIN users }

\* C38: when a user notification is emitted the list already holds the new
\* snapshot: during user-added(u) and user-changed(u) the list contains u,
\* during user-removed(u) it does not.
C38_ListReplacedBeforeSignals ==
    \A i \in DOMAIN emitted :
        /\ emitted[i].sig \in { "user-added", "user-changed" }
              => emitted[i].user \in ListedUsers
        /\ emitted[i].sig = "user-removed" => emitted[i].user \notin ListedUsers

\* a reload has added a user, changed one and removed one
C38_Witness ==
    /\ last.op = "reload"
    /\ \E i, j, k \in DOMAIN emitted :
          /\ emitted[i].sig = "user-added"
          /\ emitted[j].sig = "user-changed"
          /\ emitted[k].sig = "user-removed"


-----------------------------------------------------------------------------
(* Properties of the authentication attempts *)

\* C32: whenever the most recent login or login_as_guest call has not been
\* answered by an END_AUTHENTICATION carrying its sequence number,
\* in_authentication is true once the pending handlers have returned; this
\* includes a login issued from inside a handler of authentication-complete.
C32_PendingLoginInProgress ==
    pending_login /\ pc = "main" => in_authentication

\* C32 for the calls made from the main loop: a step taken outside the
\* handlers of authentication-complete keeps the unanswered login in progress
C32_PendingLoginInProgressFromMainLoop ==
    [][ /\ pc = "main" /\ pc' = "main"
        /\ pending_login => in_authentication
        /\ pending_login'
        => in_authentication' ]_vars

\* no login call was made yet
NoLoginYet == issued = << >> /\ authenticate_sequence_number = U32(0)

AuthenticationComplete == Signal("authentication-complete", << >>, "", NoUser)

\* C33: is_authenticated is true only if the greeter called login or
\* login_as_guest and then processed an END_AUTHENTICATION with that attempt's
\* sequence number and return code 0; no message of the server that arrives
\* before the first login call makes is_authenticated true or raises
\* authentication-complete.
C33_AuthenticatedOnlyByAnsweredLogin ==
    [][ /\ ~is_authenticated /\ is_authenticated'
           => /\ ~NoLoginYet
              /\ IsFrameStep(last', SERVER_MESSAGE_END_AUTHENTICATION)
              /\ last'.frame.wf
              /\ last'.frame.seq = authenticate_sequence_number
              /\ last'.frame.rc = U32(0)
        /\ NoLoginYet /\ last'.op = "frame"
           => /\ ~is_authenticated'
              /\ \A i \in DOMAIN emitted' : emitted'[i] # AuthenticationComplete ]_vars

\* C34: authentication-complete is raised at most once per login attempt:
\* after an END_AUTHENTICATION was accepted for a sequence number, a further
\* END_AUTHENTICATION with the same number raises nothing and does not change
\* is_authenticated.
C34_CompleteOncePerAttempt ==
    [][ /\ ~NoLoginYet /\ ~pending_login
        /\ IsFrameStep(last', SERVER_MESSAGE_END_AUTHENTICATION)
        /\ DecodedSeq(last'.frame) = authenticate_sequence_number
        => /\ emitted' = << >>
           /\ is_authenticated' = is_authenticated ]_vars

\* C35: show-prompt and show-message are raised only while in_authentication
\* is true; a PROMPT_AUTHENTICATION that arrives before any login call, or
\* after the END_AUTHENTICATION of the current number, raises nothing.
C35_PromptsOnlyInProgress ==
    [][ (\E i \in DOMAIN emitted' : emitted'[i].sig \in { "show-prompt", "show-message" })
        => in_authentication ]_vars

-----------------------------------------------------------------------------
(* Properties of the outbound messages *)

\* the header of the message declares the payload bytes that follow it
DeclaresItsPayload(m) == MessageLength(m) = U32(Len(m) - HEADER_SIZE)

\* C36: for every outbound message and every argument, usernames, responses
\* and session identifiers too long for the message buffer included, the
\* payload length the header declares equals the payload bytes written.
C36_DeclaredLengthIsWritten ==
    \A i \in DOMAIN to_server : DeclaresItsPayload(to_server[i])

\* C36 for the arguments that leave room in the message buffer (less than
\* MAX_MESSAGE_LENGTH - 16 bytes)
C36_DeclaredLengthIsWrittenShortArgument ==
    (last.arg = NULL \/ \A k \in DOMAIN last.arg :
                           Len(last.arg[k]) < MAX_MESSAGE_LENGTH - 16)
    => \A i \in DOMAIN to_server : DeclaresItsPayload(to_server[i])

-----------------------------------------------------------------------------
(* Properties of the frames that carry no authentication data *)

\* the packet is a QUIT, a SESSION_FAILED or a frame of an unknown id
IsOtherPacket(p) ==
    PacketId(p) \notin { U32(SERVER_MESSAGE_CONNECTED),
                         U32(SERVER_MESSAGE_PROMPT_AUTHENTICATION),
                         U32(SERVER_MESSAGE_END_AUTHENTICATION) }

OtherPacketSignals(p) ==
    IF PacketId(p) = U32(SERVER_MESSAGE_QUIT)
    THEN << Signal("quit", << >>, "", NoUser) >>
    ELSE IF PacketId(p) = U32(SERVER_MESSAGE_SESSION_FAILED)
    THEN << Signal("session-failed", << >>, "", NoUser) >>
    ELSE << >>

\* C37: a QUIT, SESSION_FAILED or unknown-id frame leaves every field of the
\* authentication session and the hint store unchanged; QUIT raises exactly
\* one quit, SESSION_FAILED exactly one session-failed, an unknown id no
\* signal; the frame is consumed, so that the next frame is read normally.
C37_OtherFramesLeaveSession ==
    [][ /\ dispatched' # dispatched /\ IsOtherPacket(dispatched'[Len(dispatched')])
           => /\ UNCHANGED << AuthFields, hints >>
              /\ emitted' = OtherPacketSignals(dispatched'[Len(dispatched')])
              /\ n_read' = 0
              /\ pc' = pc
        /\ dispatched # << >> /\ IsOtherPacket(LastDispatched) /\ dispatched' # dispatched
           => /\ Len(dispatched') = Len(dispatched) + 1
              /\ dispatched'[Len(dispatched')] = sent[Len(dispatched')] ]_vars

\* a QUIT frame was dispatched after an END_AUTHENTICATION that authenticated
C37_Witness ==
    /\ Len(dispatched) = 2
    /\ PacketId(dispatched[1]) = U32(SERVER_MESSAGE_END_AUTHENTICATION)
    /\ PacketId(dispatched[2]) = U32(SERVER_MESSAGE_QUIT)
    /\ is_authenticated
    /\ emitted = << Signal("quit", << >>, "", NoUser) >>
    /\ n_read = 0

\* a frame of an unknown id was dispatched after a CONNECTED that stored hints
C37_WitnessUnknown ==
    /\ Len(dispatched) = 2
    /\ PacketId(dispatched[1]) = U32(SERVER_MESSAGE_CONNECTED)
    /\ PacketId(dispatched[2]) = U32(7)
    /\ hints # << >>
    /\ emitted = << >>
    /\ n_read = 0

-----------------------------------------------------------------------------
(* Properties of the decoding of the CONNECTED frame *)

\* the offsets of the hint loop of handle_connected for the frame f
HintLoopOffsets(f) ==
    LET n == Len(f.bytes)
        id == read_int(f.bytes, n, 0)
        length == read_int(f.bytes, n, id.offset)
        version == read_string(f.bytes, n, length.offset)
    IN  connected_offsets(f.bytes, n, length.value, version.offset)

\* the iterations of the hint loop numbered in Iterations advance the offset
\* by at least Bytes
Advances(o, Iterations, Bytes) ==
    \A i \in Iterations \cap (1..(Len(o) - 1)) : o[i + 1] - o[i] >= Bytes

\* C39 as stated: decoding a CONNECTED frame terminates for every payload; each
\* iteration of the hint loop advances the read offset by at least 8 bytes,
\* so that the loop runs at most (payload length / 8) times.
C39_EveryIterationAdvancesEight ==
    IsFrameStep(last, SERVER_MESSAGE_CONNECTED) =>
        LET o == HintLoopOffsets(last.frame)
        IN  /\ Advances(o, 1..(Len(o) - 1), 8)
            /\ (Len(o) - 1) * 8 <= Len(last.frame.bytes) - HEADER_SIZE

\* C39 amended: decoding a CONNECTED frame terminates for every payload; each
\* iteration of the hint loop but the last advances the read offset by at
\* least 8 bytes and the last one by at least 6, so that the loop runs at most
\* (payload length / 8) times.
C39_HintLoopTerminates ==
    IsFrameStep(last, SERVER_MESSAGE_CONNECTED) =>
        LET o == HintLoopOffsets(last.frame)
        IN  /\ Advances(o, 1..(Len(o) - 2), 8)
            /\ Advances(o, { Len(o) - 1 }, 6)
            /\ (Len(o) - 1) * 8 <= Len(last.frame.bytes) - HEADER_SIZE

\* the loop ran twice on a payload whose second name ends 3 bytes before the
\* end of the payload: the second iteration advanced by 6 bytes
C39_Witness ==
    /\ IsFrameStep(last, SERVER_MESSAGE_CONNECTED)
    /\ Len(HintLoopOffsets(last.frame)) = 3
    /\ HintLoopOffsets(last.frame)[3] - HintLoopOffsets(last.frame)[2] = 6
    /\ g_hash_table_lookup(hints, STR_al) = << << >> >>

-----------------------------------------------------------------------------
(* Properties of the read buffer *)

\* the read that read_packet requests in the reader state rs asks for no more
\* bytes than the buffer has left after the bytes it holds
RequestWithinCapacity(rs) ==
    /\ ~gsize_less(rs.capacity, gsize(rs.n_read, rs.bits))
    /\ ~gsize_less(gsize_sub(rs.capacity, gsize(rs.n_read, rs.bits)), read_count(rs))

\* the reader state in which the read for the content was requested by the
\* step: the header is buffered and the buffer was resized
ContentReaderState ==
    [buffer |-> read_buffer', n_read |-> HEADER_SIZE, capacity |-> read_capacity',
     stream |-> << >>, bits |-> gsize_bits]

ReadsWithinCapacity ==
    /\ ~gsize_less(read_capacity', gsize(n_read', gsize_bits))
    /\ last'.op = "read" => RequestWithinCapacity(ReaderState)
    /\ last'.op = "read" /\ last'.arg[2] # "none" => RequestWithinCapacity(ContentReaderState)

\* C40: across any sequence of frames of differing payload lengths and any
\* chunking of the reads, the number of buffered bytes never exceeds the
\* allocated capacity of the read buffer, and no read is requested for more
\* bytes than the capacity left.
C40_ReadsWithinCapacity ==
    [][ReadsWithinCapacity]_vars

\* C40 in the build whose gsize has 64 bits
C40_ReadsWithinCapacityWideGsize ==
    [][gsize_bits = 64 => ReadsWithinCapacity]_vars
====
